---- MODULE Spec2Model ----
(***************************************************************************)
(* go-aku: a chat bot that plays short audio clips in voice channels.      *)
(* Model of src/main.go: the single-flight playback pipeline (playSound    *)
(* with its converted-sound cache), the voice-presence tracker             *)
(* (onVoiceStateUpdate), the !aku command (onMessage) and the paginated    *)
(* help sessions (sendHelp, onMessageReactionAdd).                         *)
(*                                                                         *)
(* The gateway library runs every handler on a goroutine of its own, so    *)
(* a handler is a process with a program counter; the steps of playSound   *)
(* interleave with the steps of every other handler.                       *)
(***************************************************************************)
EXTENDS Integers, Sequences, FiniteSets, TLC

(* ------------------------------ bounds -------------------------------- *)

\* Number of handler goroutines that can be running at once.
NHandlers == 2

Procs == 1 .. NHandlers

\* Number of help messages the bot sends in a run.
MaxMessages == 2

\* Number of sounds in the small and in the large category of the catalog.
SmallCount == 3
BigCount == 21

(* --------------------------- the environment -------------------------- *)

\* session.State.User.ID: the bot's own user id.
BotID == "bot"

UserIDs == {"u1", "u2", BotID}

\* user.Username + "#" + user.Discriminator
getUniqueUsername(userID) ==
    CASE userID = "u1" -> "alice#0001"
      [] userID = "u2" -> "bob#0002"
      [] OTHER         -> "aku#0000"

Usernames == {getUniqueUsername(u) : u \in UserIDs}

Guilds == {"g1", "g2"}

\* guild.AfkChannelID of each guild; "" when the guild has no AFK channel.
AfkChannelID == [g \in Guilds |-> IF g = "g1" THEN "afk" ELSE ""]

\* The voice channels of each guild (channel ids are unique platform-wide).
GuildChannels == [g \in Guilds |-> IF g = "g1" THEN {"c1", "afk"} ELSE {"c2", "c3"}]

\* voiceChannelState{channel, guild}
voiceChannelState(channel, guild) == [channel |-> channel, guild |-> guild]

\* Every (channel, guild) pair the platform can report; channel "" = not in voice.
VoiceStates ==
    UNION {{voiceChannelState(c, g) : c \in GuildChannels[g] \cup {""}} : g \in Guilds}

\* The entry of a key that is not in the Go map.
Missing == [channel |-> "<missing>", guild |-> "<missing>"]

\* The zero value a Go map lookup yields for a key that is not present.
ZeroVoiceState == voiceChannelState("", "")

\* audioAssets: asset name -> path of the source file.  "alice#0001" is the
\* entry sound of u1 (category "entries"); u2 and the bot have none.
audioAssets ==
    [n \in {"alice#0001", "airhorn"} |->
        IF n = "airhorn" THEN "/var/go-aku/audio/misc/airhorn.mp3"
                         ELSE "/var/go-aku/audio/entries/alice#0001.mp3"]

SoundNames == DOMAIN audioAssets

\* audioHelp["entries"]: the sounds pre-cached at startup.
EntrySounds == {"alice#0001"}

\* What a chat user can type after "!aku".
Arguments == SoundNames \cup {"nosuchsound"}

\* filepath.Join(convertedSoundCachePath, soundName + ".dca")
getConvertedSoundCachePath(soundName) == <<"/tmp/aku", soundName, ".dca">>

CachePaths == {getConvertedSoundCachePath(s) : s \in SoundNames}

(* ------------------------------- state -------------------------------- *)

VARIABLES
    alive,             \* FALSE once an unrecovered panic has ended the process
    audioBusy,         \* var audioBusy bool
    userVoiceChannel,  \* var userVoiceChannel map[string]voiceChannelState
    files,             \* the cache files: path -> "absent" | "partial" | "complete" | "stale"
    pc,                \* where each handler goroutine is
    ev,                \* the event a handler is handling
    previous,          \* onVoiceStateUpdate's previousVoiceChannel
    call,              \* playSound's arguments
    outcome,           \* how the handler (or its playSound call) ended
    fx                 \* gateway / transcoder / file-system calls made by this playSound call

playVars == <<alive, audioBusy, userVoiceChannel, files, pc, ev, previous, call, outcome, fx>>

VARIABLES
    activeHelpPages,   \* var activeHelpPages map[string]helpPage, keyed by message id
    shown,             \* the page each help message displays in the chat
    sent,              \* number of help messages sent so far (the last message id)
    hpc,               \* where each help handler goroutine is
    hev,               \* the message or reaction event it is handling
    helpPage,          \* its local variable helpPage
    hout,              \* how it ended
    reactions          \* the reactions on each message: pairs <<emoji, user>>

helpVars == <<activeHelpPages, shown, sent, hpc, hev, helpPage, hout, reactions>>

VARIABLES
    main,              \* where func main is
    cacheDir,          \* what the file system has at convertedSoundCachePath
    removed            \* how os.RemoveAll(convertedSoundCachePath) ended, once called

mainVars == <<main, cacheDir, removed>>

VARIABLES
    ensured,           \* the last completed cache check of playSound: sound, path, result
    disconnected       \* the last voiceConnection.Disconnect() of playSound: exit path, error

VARIABLES
    pageSize,          \* the page size a paginated list is rendered with
    strings,           \* the list being rendered
    pages              \* the pages rendered so far, in page order

renderVars == <<pageSize, strings, pages>>

VARIABLES
    message,           \* the content of a chat message, character by character
    parsed             \* what getCommandFromMessage has returned for it

commandVars == <<message, parsed>>

VARIABLES
    platform,          \* what the platform answers while the presence map is built
    guildsLeft,        \* the guilds of session.State.Guilds still to be gone through
    processed,         \* the guilds whose members were fetched
    recent             \* the users a presence event has written since voice states were last read

bulkVars == <<platform, guildsLeft, processed, recent>>

VARIABLES
    sounds             \* audioHelp[category] for one category: its asset names, in order

vars == <<playVars, helpVars, mainVars, ensured, disconnected, renderVars, commandVars, bulkVars, sounds>>

NoEvent == [kind |-> "none", user |-> "", channel |-> "", guild |-> "", arg |-> "", lookup |-> ""]
NoCall == [soundName |-> "", soundPath |-> "", target |-> ZeroVoiceState]
NoFx ==
    [stats |-> 0, encodes |-> 0, encodeErrors |-> 0, opens |-> 0, joins |-> 0, streams |-> 0,
     disconnects |-> 0]
NoPrevious == [channel |-> "<unset>", guild |-> "<unset>"]
NoEnsure == [soundName |-> "", soundPath |-> <<>>, result |-> "none"]
NoDisconnect == [outcome |-> "none", err |-> FALSE]
NoPlatform == [members |-> <<>>, connected |-> <<>>, fetched |-> <<>>, found |-> <<>>]
NotParsed == [command |-> <<"<none>">>, argument |-> <<"<none>">>]

\* A map lookup: the stored record, or the zero value.
MapGet(m, k) == IF m[k] = Missing THEN ZeroVoiceState ELSE m[k]

\* The presence map populateInitialVoiceState can leave behind: a user it saw has
\* a record, a user it did not see (member fetch failed) has none.
InitialPresence ==
    {m \in [Usernames -> VoiceStates \cup {Missing}] :
        m[getUniqueUsername(BotID)] = voiceChannelState("", "g1")}

\* The cache after initializeConvertedSoundCache, when no earlier run left a
\* directory behind: it holds at most the entry sounds, each encoded, cut short
\* by a failed copy, or not created.
InitialFiles ==
    {f \in [CachePaths -> {"absent", "partial", "complete"}] :
        \A s \in SoundNames \ EntrySounds : f[getConvertedSoundCachePath(s)] = "absent"}

(* ---------------------------- help pages ------------------------------ *)

stringsPerPage == 10

previousPageEmoji == "previous"
nextPageEmoji == "next"

\* audioHelp: category -> its sounds.  Only the number of sounds matters to
\* pagination: "empty" is a directory without files.
audioHelp ==
    [c \in {"empty", "greetings", "big"} |->
        CASE c = "empty"     -> 0
          [] c = "greetings" -> SmallCount
          [] OTHER           -> BigCount]

\* What a chat user can type after "!akuh"; "" asks for the list of categories.
HelpArguments == DOMAIN audioHelp \cup {"", "nosuchcategory"}

MessageIDs == 1 .. MaxMessages

\* totalPages, but rounding down.
totalPagesFloor(totalResults, resultsPerPage) == totalResults \div resultsPerPage

\* int(math.Ceil(float64(totalResults) / float64(resultsPerPage)))
totalPages(totalResults, resultsPerPage) ==
    IF totalResults % resultsPerPage = 0
    THEN totalResults \div resultsPerPage
    ELSE totalResults \div resultsPerPage + 1

\* helpPage{name, page, totalPages, renderPage}; renderPage is a closure over
\* the listed contents and has no state of its own.
NoHelpPage == [name |-> "<missing>", page |-> 0, totalPages |-> 0]

\* initializeAudioCategoryHelpPage, for a category that exists
initializeAudioCategoryHelpPage(category) ==
    [name |-> "audio/" \o category,
     page |-> 0,
     totalPages |-> totalPages(audioHelp[category], stringsPerPage)]

\* initializeCategoryRootHelpPage("audio", &audioHelp)
initializeCategoryRootHelpPage(name) ==
    [name |-> name,
     page |-> 0,
     totalPages |-> totalPages(Cardinality(DOMAIN audioHelp), stringsPerPage)]

\* var paginationReactions = []string{previousPageEmoji, nextPageEmoji}
paginationReactions == {previousPageEmoji, nextPageEmoji}

\* initializeReactions: the bot adds each emoji of targetEmoji to the message
\* (the gateway accepting each session.MessageReactionAdd).
initializeReactions(targetEmoji) == {<<emoji, BotID>> : emoji \in targetEmoji}

\* resetReactions: for each emoji of targetEmoji, the users reacting with it
\* are fetched and every one but the bot has that reaction removed (the gateway
\* accepting each call, and no more than 100 users reacting).
resetReactions(present, targetEmoji) ==
    {r \in present : ~(r[1] \in targetEmoji /\ r[2] # BotID)}

NoHelpEvent == [kind |-> "none", user |-> "", arg |-> "", message |-> 0, emoji |-> "", ok |-> TRUE]

InitHelp ==
    /\ activeHelpPages = [m \in MessageIDs |-> NoHelpPage]
    /\ shown = [m \in MessageIDs |-> -1]
    /\ sent = 0
    /\ hpc = [p \in Procs |-> "idle"]
    /\ hev = [p \in Procs |-> NoHelpEvent]
    /\ helpPage = [p \in Procs |-> NoHelpPage]
    /\ hout = [p \in Procs |-> "none"]
    /\ reactions = [m \in {0} \cup MessageIDs |-> {}]

\* The "!akuh [category]" messages the gateway can deliver; ok is whether
\* session.ChannelMessageSendEmbed succeeds for the answer.
AkuhMessages ==
    {[kind |-> "akuh", user |-> u, arg |-> a, message |-> 0, emoji |-> "", ok |-> k] :
        u \in {"u1", BotID}, a \in HelpArguments, k \in BOOLEAN}

\* onMessageAkuh, but a category that does not exist is answered with the list
\* of categories.
onMessageAkuhListingRoot(p, e) ==
    /\ hpc[p] = "idle"
    /\ hev' = [hev EXCEPT ![p] = e]
    /\ hpc' = [hpc EXCEPT ![p] = "ret"]
    /\ UNCHANGED helpPage
    /\ IF e.user = BotID
       THEN /\ hout' = [hout EXCEPT ![p] = "self"]
            /\ UNCHANGED <<activeHelpPages, shown, sent, reactions>>
       ELSE IF FALSE
       THEN /\ hout' = [hout EXCEPT ![p] = "nosuchcategory"]
            /\ UNCHANGED <<activeHelpPages, shown, sent, reactions>>
       ELSE IF ~e.ok \/ sent = MaxMessages
       THEN /\ hout' = [hout EXCEPT ![p] = "sendfailed"]
            /\ UNCHANGED <<activeHelpPages, shown, sent, reactions>>
       ELSE LET page == IF e.arg \notin DOMAIN audioHelp THEN initializeCategoryRootHelpPage("audio")
                                      ELSE initializeAudioCategoryHelpPage(e.arg)
                messageID == sent + 1
            IN  /\ sent' = messageID
                /\ shown' = [shown EXCEPT ![messageID] = page.page]
                /\ reactions' = [reactions EXCEPT
                                    ![messageID] = initializeReactions(paginationReactions)]
                /\ activeHelpPages' = [activeHelpPages EXCEPT ![messageID] = page]
                /\ hout' = [hout EXCEPT ![p] = "sent"]

\* onMessage, case "!akuh": sendAudioHelp and sendHelp.
onMessageAkuh(p, e) ==
    /\ hpc[p] = "idle"
    /\ hev' = [hev EXCEPT ![p] = e]
    /\ hpc' = [hpc EXCEPT ![p] = "ret"]
    /\ UNCHANGED helpPage
    /\ IF e.user = BotID
       THEN /\ hout' = [hout EXCEPT ![p] = "self"]
            /\ UNCHANGED <<activeHelpPages, shown, sent, reactions>>
       ELSE IF e.arg # "" /\ e.arg \notin DOMAIN audioHelp
       THEN /\ hout' = [hout EXCEPT ![p] = "nosuchcategory"]
            /\ UNCHANGED <<activeHelpPages, shown, sent, reactions>>
       ELSE IF ~e.ok \/ sent = MaxMessages
       THEN /\ hout' = [hout EXCEPT ![p] = "sendfailed"]
            /\ UNCHANGED <<activeHelpPages, shown, sent, reactions>>
       ELSE LET page == IF e.arg = "" THEN initializeCategoryRootHelpPage("audio")
                                      ELSE initializeAudioCategoryHelpPage(e.arg)
                messageID == sent + 1
            IN  /\ sent' = messageID
                /\ shown' = [shown EXCEPT ![messageID] = page.page]
                /\ reactions' = [reactions EXCEPT
                                    ![messageID] = initializeReactions(paginationReactions)]
                /\ activeHelpPages' = [activeHelpPages EXCEPT ![messageID] = page]
                /\ hout' = [hout EXCEPT ![p] = "sent"]

\* The reaction-added events the gateway can deliver; message 0 is a message
\* that is not a help message; ok is whether the message edit succeeds.
ReactionEvents ==
    {[kind |-> "reaction", user |-> u, arg |-> "", message |-> m, emoji |-> j, ok |-> k] :
        u \in {"u1", BotID}, m \in {0} \cup MessageIDs,
        j \in {previousPageEmoji, nextPageEmoji, "other"}, k \in BOOLEAN}

\* switch event.Emoji.Name { case previousPageEmoji: page--; case nextPageEmoji: page++ }
TurnPage(page, emoji) ==
    CASE emoji = previousPageEmoji -> page - 1
      [] emoji = nextPageEmoji     -> page + 1
      [] OTHER                     -> page

\* PageOutOfBounds with the upper comparison off by one.
PageOutOfBoundsOffByOne(h) == h.page < 0 \/ h.page > h.totalPages

\* if helpPage.page < 0 || helpPage.page >= helpPage.totalPages
PageOutOfBounds(h) == h.page < 0 \/ h.page >= h.totalPages

\* onMessageReactionAdd up to activeHelpPages[event.MessageID] = helpPage.
\* The event tells of a reaction the user has put on the message.
onMessageReactionAdd(p, e) ==
    /\ hpc[p] = "idle"
    /\ hev' = [hev EXCEPT ![p] = e]
    /\ UNCHANGED <<shown, sent>>
    /\ reactions' =
          IF e.user = BotID
          THEN reactions
          ELSE [reactions EXCEPT
                  ![e.message] = resetReactions(@ \cup {<<e.emoji, e.user>>}, paginationReactions)]
    /\ IF e.user = BotID
       THEN /\ hpc' = [hpc EXCEPT ![p] = "ret"]
            /\ hout' = [hout EXCEPT ![p] = "self"]
            /\ UNCHANGED <<activeHelpPages, helpPage>>
       ELSE IF e.message \notin MessageIDs \/ activeHelpPages[e.message] = NoHelpPage
       THEN /\ hpc' = [hpc EXCEPT ![p] = "ret"]
            /\ hout' = [hout EXCEPT ![p] = "notfound"]
            /\ UNCHANGED <<activeHelpPages, helpPage>>
       ELSE LET found == activeHelpPages[e.message]
                turned == [found EXCEPT !.page = TurnPage(found.page, e.emoji)]
            IN  /\ helpPage' = [helpPage EXCEPT ![p] = turned]
                /\ IF PageOutOfBounds(turned)
                   THEN /\ hpc' = [hpc EXCEPT ![p] = "ret"]
                        /\ hout' = [hout EXCEPT ![p] = "outofbounds"]
                        /\ UNCHANGED activeHelpPages
                   ELSE /\ hpc' = [hpc EXCEPT ![p] = "edit"]
                        /\ hout' = [hout EXCEPT ![p] = "none"]
                        /\ activeHelpPages' = [activeHelpPages EXCEPT ![e.message] = turned]

\* helpPage.renderPage(helpPage.page); session.ChannelMessageEditEmbed(...)
EditMessage(p) ==
    /\ hpc[p] = "edit"
    /\ hpc' = [hpc EXCEPT ![p] = "ret"]
    /\ IF hev[p].ok
       THEN /\ shown' = [shown EXCEPT ![hev[p].message] = helpPage[p].page]
            /\ hout' = [hout EXCEPT ![p] = "edited"]
       ELSE /\ UNCHANGED shown
            /\ hout' = [hout EXCEPT ![p] = "editfailed"]
    /\ UNCHANGED <<activeHelpPages, sent, hev, helpPage, reactions>>

\* The help handler returns and its goroutine ends.
ReturnHelp(p) ==
    /\ hpc[p] = "ret"
    /\ hpc' = [hpc EXCEPT ![p] = "idle"]
    /\ hev' = [hev EXCEPT ![p] = NoHelpEvent]
    /\ helpPage' = [helpPage EXCEPT ![p] = NoHelpPage]
    /\ hout' = [hout EXCEPT ![p] = "none"]
    /\ UNCHANGED <<activeHelpPages, shown, sent, reactions>>

HelpHandlers(handlers) ==
    \E p \in handlers :
        \/ \E e \in AkuhMessages : onMessageAkuh(p, e)
        \/ \E e \in ReactionEvents : onMessageReactionAdd(p, e)
        \/ EditMessage(p)
        \/ ReturnHelp(p)

\* The handlers' state once main() has initialised the globals and onReady has
\* run, for a presence map drawn from presences and cache files from caches.
InitHandlers(presences, caches) ==
    /\ alive = TRUE
    /\ audioBusy = FALSE
    /\ userVoiceChannel \in presences
    /\ files \in caches
    /\ pc = [p \in Procs |-> "idle"]
    /\ ev = [p \in Procs |-> NoEvent]
    /\ previous = [p \in Procs |-> NoPrevious]
    /\ call = [p \in Procs |-> NoCall]
    /\ outcome = [p \in Procs |-> "none"]
    /\ fx = [p \in Procs |-> NoFx]
    /\ ensured = NoEnsure
    /\ disconnected = NoDisconnect
    /\ InitHelp

\* main() waits at <-sc: the cache directory exists and nothing is rendering.
InitOf(presences, caches) ==
    /\ InitHandlers(presences, caches)
    /\ main = "serving"
    /\ cacheDir = "directory"
    /\ removed = "notcalled"
    /\ pageSize = stringsPerPage
    /\ strings = <<>>
    /\ pages = <<>>
    /\ message = <<>>
    /\ parsed = NotParsed
    /\ platform = NoPlatform
    /\ guildsLeft = <<>>
    /\ processed = {}
    /\ recent = {}
    /\ sounds = <<>>

(* ------------------------ onVoiceStateUpdate -------------------------- *)

\* The presence events the gateway can deliver; lookup is how session.User and
\* session.Guild answer for this event.
VoiceEvents ==
    {[kind |-> "voice", user |-> u, channel |-> vs.channel, guild |-> vs.guild,
      arg |-> "", lookup |-> l] :
        u \in UserIDs, vs \in VoiceStates, l \in {"ok", "nouser", "noguild"}}

\* ShouldPlayEntry without the test that the user is still in voice.
ShouldPlayEntryOnLeave(previousVoiceChannel, newVoiceState, afkChannelID) ==
    \/ previousVoiceChannel.channel = ""
    \/ (afkChannelID # "" /\ previousVoiceChannel.channel = afkChannelID)
    \/ previousVoiceChannel.guild # newVoiceState.guild

\* ShouldPlayEntry without the test for a change of guild.
ShouldPlayEntrySameGuildOnly(previousVoiceChannel, newVoiceState, afkChannelID) ==
    /\ newVoiceState.channel # ""
    /\ \/ previousVoiceChannel.channel = ""
       \/ (afkChannelID # "" /\ previousVoiceChannel.channel = afkChannelID)

\* ShouldPlayEntry firing on every change of channel.
ShouldPlayEntryOnMove(previousVoiceChannel, newVoiceState, afkChannelID) ==
    /\ newVoiceState.channel # ""
    /\ \/ previousVoiceChannel.channel # newVoiceState.channel
       \/ previousVoiceChannel.guild # newVoiceState.guild

\* The condition of the if statement that guards the playSound call.
ShouldPlayEntry(previousVoiceChannel, newVoiceState, afkChannelID) ==
    /\ newVoiceState.channel # ""
    /\ \/ previousVoiceChannel.channel = ""
       \/ (afkChannelID # "" /\ previousVoiceChannel.channel = afkChannelID)
       \/ previousVoiceChannel.guild # newVoiceState.guild

\* onVoiceStateUpdate, but the record is stored only for a user who has an
\* entry sound (the store placed after the early return).
onVoiceStateUpdateStoringLate(p, e) ==
    /\ alive
    /\ pc[p] = "idle"
    /\ ev' = [ev EXCEPT ![p] = e]
    /\ UNCHANGED <<alive, audioBusy, files, fx>>
    /\ IF e.user = BotID \/ e.lookup # "ok"
       THEN /\ pc' = [pc EXCEPT ![p] = "ret"]
            /\ outcome' = [outcome EXCEPT ![p] = IF e.user = BotID THEN "self" ELSE e.lookup]
            /\ UNCHANGED <<userVoiceChannel, previous, call>>
       ELSE LET username == getUniqueUsername(e.user)
                previousVoiceChannel == MapGet(userVoiceChannel, username)
                newVoiceState == voiceChannelState(e.channel, e.guild)
            IN  /\ previous' = [previous EXCEPT ![p] = previousVoiceChannel]
                /\ IF username \notin DOMAIN audioAssets
                   THEN /\ pc' = [pc EXCEPT ![p] = "ret"]
                        /\ outcome' = [outcome EXCEPT ![p] = "noentrysound"]
                        /\ UNCHANGED <<call, userVoiceChannel>>
                   ELSE /\ userVoiceChannel' =
                              [userVoiceChannel EXCEPT ![username] = newVoiceState]
                        /\ IF ShouldPlayEntry(previousVoiceChannel, newVoiceState,
                                              AfkChannelID[e.guild])
                           THEN /\ pc' = [pc EXCEPT ![p] = "gate"]
                                /\ outcome' = [outcome EXCEPT ![p] = "none"]
                                /\ call' = [call EXCEPT ![p] =
                                              [soundName |-> username,
                                               soundPath |-> audioAssets[username],
                                               target |-> newVoiceState]]
                           ELSE /\ pc' = [pc EXCEPT ![p] = "ret"]
                                /\ outcome' = [outcome EXCEPT ![p] = "notrigger"]
                                /\ UNCHANGED call

\* onVoiceStateUpdate, but the entry sound is played where the user was before.
onVoiceStateUpdateIntoPrevious(p, e) ==
    /\ alive
    /\ pc[p] = "idle"
    /\ ev' = [ev EXCEPT ![p] = e]
    /\ UNCHANGED <<alive, audioBusy, files, fx>>
    /\ IF e.user = BotID
       THEN /\ pc' = [pc EXCEPT ![p] = "ret"]
            /\ outcome' = [outcome EXCEPT ![p] = "self"]
            /\ UNCHANGED <<userVoiceChannel, previous, call>>
       ELSE IF e.lookup # "ok"
       THEN /\ pc' = [pc EXCEPT ![p] = "ret"]
            /\ outcome' = [outcome EXCEPT ![p] = e.lookup]
            /\ UNCHANGED <<userVoiceChannel, previous, call>>
       ELSE LET username == getUniqueUsername(e.user)
                previousVoiceChannel == MapGet(userVoiceChannel, username)
                newVoiceState == voiceChannelState(e.channel, e.guild)
            IN  /\ previous' = [previous EXCEPT ![p] = previousVoiceChannel]
                /\ userVoiceChannel' = [userVoiceChannel EXCEPT ![username] = newVoiceState]
                /\ IF username \notin DOMAIN audioAssets
                   THEN /\ pc' = [pc EXCEPT ![p] = "ret"]
                        /\ outcome' = [outcome EXCEPT ![p] = "noentrysound"]
                        /\ UNCHANGED call
                   ELSE IF ShouldPlayEntry(previousVoiceChannel, newVoiceState,
                                           AfkChannelID[e.guild])
                   THEN /\ pc' = [pc EXCEPT ![p] = "gate"]
                        /\ outcome' = [outcome EXCEPT ![p] = "none"]
                        /\ call' = [call EXCEPT ![p] =
                                      [soundName |-> username,
                                       soundPath |-> audioAssets[username],
                                       target |-> previousVoiceChannel]]
                   ELSE /\ pc' = [pc EXCEPT ![p] = "ret"]
                        /\ outcome' = [outcome EXCEPT ![p] = "notrigger"]
                        /\ UNCHANGED call

\* onVoiceStateUpdate without the test for the bot's own events.
onVoiceStateUpdateOfAnyone(p, e) ==
    /\ alive
    /\ pc[p] = "idle"
    /\ ev' = [ev EXCEPT ![p] = e]
    /\ UNCHANGED <<alive, audioBusy, files, fx>>
    /\ IF FALSE
       THEN /\ pc' = [pc EXCEPT ![p] = "ret"]
            /\ outcome' = [outcome EXCEPT ![p] = "self"]
            /\ UNCHANGED <<userVoiceChannel, previous, call>>
       ELSE IF e.lookup # "ok"
       THEN /\ pc' = [pc EXCEPT ![p] = "ret"]
            /\ outcome' = [outcome EXCEPT ![p] = e.lookup]
            /\ UNCHANGED <<userVoiceChannel, previous, call>>
       ELSE LET username == getUniqueUsername(e.user)
                previousVoiceChannel == MapGet(userVoiceChannel, username)
                newVoiceState == voiceChannelState(e.channel, e.guild)
            IN  /\ previous' = [previous EXCEPT ![p] = previousVoiceChannel]
                /\ userVoiceChannel' = [userVoiceChannel EXCEPT ![username] = newVoiceState]
                /\ IF username \notin DOMAIN audioAssets
                   THEN /\ pc' = [pc EXCEPT ![p] = "ret"]
                        /\ outcome' = [outcome EXCEPT ![p] = "noentrysound"]
                        /\ UNCHANGED call
                   ELSE IF ShouldPlayEntry(previousVoiceChannel, newVoiceState,
                                           AfkChannelID[e.guild])
                   THEN /\ pc' = [pc EXCEPT ![p] = "gate"]
                        /\ outcome' = [outcome EXCEPT ![p] = "none"]
                        /\ call' = [call EXCEPT ![p] =
                                      [soundName |-> username,
                                       soundPath |-> audioAssets[username],
                                       target |-> newVoiceState]]
                   ELSE /\ pc' = [pc EXCEPT ![p] = "ret"]
                        /\ outcome' = [outcome EXCEPT ![p] = "notrigger"]
                        /\ UNCHANGED call

\* The handler up to (and including) its call of playSound; playSound's own steps
\* follow from pc = "gate".
onVoiceStateUpdate(p, e) ==
    /\ alive
    /\ pc[p] = "idle"
    /\ ev' = [ev EXCEPT ![p] = e]
    /\ UNCHANGED <<alive, audioBusy, files, fx>>
    /\ IF e.user = BotID
       THEN /\ pc' = [pc EXCEPT ![p] = "ret"]
            /\ outcome' = [outcome EXCEPT ![p] = "self"]
            /\ UNCHANGED <<userVoiceChannel, previous, call>>
       ELSE IF e.lookup # "ok"
       THEN /\ pc' = [pc EXCEPT ![p] = "ret"]
            /\ outcome' = [outcome EXCEPT ![p] = e.lookup]
            /\ UNCHANGED <<userVoiceChannel, previous, call>>
       ELSE LET username == getUniqueUsername(e.user)
                previousVoiceChannel == MapGet(userVoiceChannel, username)
                newVoiceState == voiceChannelState(e.channel, e.guild)
            IN  /\ previous' = [previous EXCEPT ![p] = previousVoiceChannel]
                /\ userVoiceChannel' = [userVoiceChannel EXCEPT ![username] = newVoiceState]
                /\ IF username \notin DOMAIN audioAssets
                   THEN /\ pc' = [pc EXCEPT ![p] = "ret"]
                        /\ outcome' = [outcome EXCEPT ![p] = "noentrysound"]
                        /\ UNCHANGED call
                   ELSE IF ShouldPlayEntry(previousVoiceChannel, newVoiceState,
                                           AfkChannelID[e.guild])
                   THEN /\ pc' = [pc EXCEPT ![p] = "gate"]
                        /\ outcome' = [outcome EXCEPT ![p] = "none"]
                        /\ call' = [call EXCEPT ![p] =
                                      [soundName |-> username,
                                       soundPath |-> audioAssets[username],
                                       target |-> newVoiceState]]
                   ELSE /\ pc' = [pc EXCEPT ![p] = "ret"]
                        /\ outcome' = [outcome EXCEPT ![p] = "notrigger"]
                        /\ UNCHANGED call

(* ----------------------------- onMessage ------------------------------ *)

\* The "!aku <argument>" messages the gateway can deliver: author, the argument as
\* getCommandFromMessage returns it, and the guild the message was posted in.
AkuMessages ==
    {[kind |-> "aku", user |-> u, channel |-> "", guild |-> g, arg |-> a, lookup |-> "ok"] :
        u \in UserIDs, g \in Guilds, a \in Arguments}

\* onMessageAku without the comparison of the message's guild with the recorded guild.
onMessageAkuAnyGuild(p, e) ==
    /\ alive
    /\ pc[p] = "idle"
    /\ ev' = [ev EXCEPT ![p] = e]
    /\ UNCHANGED <<alive, audioBusy, userVoiceChannel, files, previous, fx>>
    /\ IF e.user = BotID
       THEN /\ pc' = [pc EXCEPT ![p] = "ret"]
            /\ outcome' = [outcome EXCEPT ![p] = "self"]
            /\ UNCHANGED call
       ELSE LET authorUsername == getUniqueUsername(e.user)
                authorVoiceStateFound == userVoiceChannel[authorUsername] # Missing
                authorVoiceState == MapGet(userVoiceChannel, authorUsername)
                assetExists == e.arg \in DOMAIN audioAssets
            IN  IF \/ ~authorVoiceStateFound
                   \/ authorVoiceState.channel = ""
                   \/ ~assetExists
                THEN /\ pc' = [pc EXCEPT ![p] = "ret"]
                     /\ outcome' = [outcome EXCEPT ![p] = "invalid"]
                     /\ UNCHANGED call
                ELSE /\ pc' = [pc EXCEPT ![p] = "gate"]
                     /\ outcome' = [outcome EXCEPT ![p] = "none"]
                     /\ call' = [call EXCEPT ![p] =
                                   [soundName |-> e.arg,
                                    soundPath |-> audioAssets[e.arg],
                                    target |-> authorVoiceState]]

\* case "!aku": validate, then call playSound with the author's recorded voice state.
onMessageAku(p, e) ==
    /\ alive
    /\ pc[p] = "idle"
    /\ ev' = [ev EXCEPT ![p] = e]
    /\ UNCHANGED <<alive, audioBusy, userVoiceChannel, files, previous, fx>>
    /\ IF e.user = BotID
       THEN /\ pc' = [pc EXCEPT ![p] = "ret"]
            /\ outcome' = [outcome EXCEPT ![p] = "self"]
            /\ UNCHANGED call
       ELSE LET authorUsername == getUniqueUsername(e.user)
                authorVoiceStateFound == userVoiceChannel[authorUsername] # Missing
                authorVoiceState == MapGet(userVoiceChannel, authorUsername)
                assetExists == e.arg \in DOMAIN audioAssets
            IN  IF \/ ~authorVoiceStateFound
                   \/ authorVoiceState.channel = ""
                   \/ ~assetExists
                   \/ e.guild # authorVoiceState.guild
                THEN /\ pc' = [pc EXCEPT ![p] = "ret"]
                     /\ outcome' = [outcome EXCEPT ![p] = "invalid"]
                     /\ UNCHANGED call
                ELSE /\ pc' = [pc EXCEPT ![p] = "gate"]
                     /\ outcome' = [outcome EXCEPT ![p] = "none"]
                     /\ call' = [call EXCEPT ![p] =
                                   [soundName |-> e.arg,
                                    soundPath |-> audioAssets[e.arg],
                                    target |-> authorVoiceState]]

(* ----------------------------- playSound ------------------------------ *)

Bump(p, field) == [fx EXCEPT ![p] = [@ EXCEPT ![field] = @ + 1]]

\* Gate, but a request that finds the flag set goes on instead of returning.
GateNotDropping(p) ==
    /\ alive
    /\ pc[p] = "gate"
    /\ IF audioBusy
       THEN /\ pc' = [pc EXCEPT ![p] = "check"]
            /\ outcome' = [outcome EXCEPT ![p] = "dropped"]
       ELSE /\ pc' = [pc EXCEPT ![p] = "set"]
            /\ UNCHANGED outcome
    /\ previous' = [previous EXCEPT ![p] = NoPrevious]
    /\ UNCHANGED <<alive, audioBusy, userVoiceChannel, files, ev, call, fx>>

\* if audioBusy { return }
Gate(p) ==
    /\ alive
    /\ pc[p] = "gate"
    /\ IF audioBusy
       THEN /\ pc' = [pc EXCEPT ![p] = "ret"]
            /\ outcome' = [outcome EXCEPT ![p] = "dropped"]
       ELSE /\ pc' = [pc EXCEPT ![p] = "set"]
            /\ UNCHANGED outcome
    /\ previous' = [previous EXCEPT ![p] = NoPrevious]
    /\ UNCHANGED <<alive, audioBusy, userVoiceChannel, files, ev, call, fx>>

\* audioBusy = true; defer func() { audioBusy = false }()
SetBusy(p) ==
    /\ alive
    /\ pc[p] = "set"
    /\ audioBusy' = TRUE
    /\ pc' = [pc EXCEPT ![p] = "check"]
    /\ UNCHANGED <<alive, userVoiceChannel, files, ev, previous, call, outcome, fx>>

\* isSoundCached, but only a fully written artifact counts.
isSoundCachedWhenComplete(soundName) == files[getConvertedSoundCachePath(soundName)] = "complete"

\* os.Stat of the artifact path: cached iff a file exists there.
isSoundCached(soundName) == files[getConvertedSoundCachePath(soundName)] # "absent"

\* if !isSoundCached(soundName) { convertAndCache(...) }
CheckCached(p) ==
    /\ alive
    /\ pc[p] = "check"
    /\ fx' = Bump(p, "stats")
    /\ pc' = [pc EXCEPT ![p] = IF isSoundCached(call[p].soundName) THEN "open" ELSE "create"]
    /\ UNCHANGED <<alive, audioBusy, userVoiceChannel, files, ev, previous, call, outcome>>

\* convertAndCache, first half: dca.EncodeFile starts the transcoder, os.Create
\* creates (or truncates) the artifact; if os.Create fails the function logs
\* the error and returns, and playSound goes on to os.Open.
ConvertCreate(p) ==
    /\ alive
    /\ pc[p] = "create"
    /\ \/ /\ files' = [files EXCEPT ![getConvertedSoundCachePath(call[p].soundName)] = "partial"]
          /\ fx' = Bump(p, "encodes")
          /\ pc' = [pc EXCEPT ![p] = "copy"]
       \/ /\ UNCHANGED files
          /\ fx' = [fx EXCEPT ![p] = [@ EXCEPT !.encodes = @ + 1, !.encodeErrors = @ + 1]]
          /\ pc' = [pc EXCEPT ![p] = "open"]
    /\ UNCHANGED <<alive, audioBusy, userVoiceChannel, ev, previous, call, outcome>>

\* convertAndCache, second half: io.Copy(output, encodeSession) runs to the end
\* of the encode, or stops at an error and leaves what it wrote so far; the
\* function logs the error and returns, and playSound goes on to os.Open.
ConvertCopy(p) ==
    /\ alive
    /\ pc[p] = "copy"
    /\ \/ /\ files' = [files EXCEPT ![getConvertedSoundCachePath(call[p].soundName)] = "complete"]
          /\ UNCHANGED fx
       \/ /\ UNCHANGED files
          /\ fx' = Bump(p, "encodeErrors")
    /\ pc' = [pc EXCEPT ![p] = "open"]
    /\ UNCHANGED <<alive, audioBusy, userVoiceChannel, ev, previous, call, outcome>>

\* OpenArtifact, but the error return does not run the deferred reset of audioBusy.
OpenArtifactKeepingBusy(p) ==
    /\ alive
    /\ pc[p] = "open"
    /\ fx' = Bump(p, "opens")
    /\ IF files[getConvertedSoundCachePath(call[p].soundName)] = "absent"
       THEN /\ pc' = [pc EXCEPT ![p] = "ret"]
            /\ outcome' = [outcome EXCEPT ![p] = "openfailed"]
       ELSE /\ pc' = [pc EXCEPT ![p] = "join"]
            /\ UNCHANGED outcome
    /\ UNCHANGED <<alive, audioBusy, userVoiceChannel, files, ev, previous, call>>

\* os.Open of the artifact (and dca.NewDecoder on it); on an error, return.
OpenArtifact(p) ==
    /\ alive
    /\ pc[p] = "open"
    /\ fx' = Bump(p, "opens")
    /\ IF files[getConvertedSoundCachePath(call[p].soundName)] = "absent"
       THEN /\ pc' = [pc EXCEPT ![p] = "clear"]
            /\ outcome' = [outcome EXCEPT ![p] = "openfailed"]
       ELSE /\ pc' = [pc EXCEPT ![p] = "join"]
            /\ UNCHANGED outcome
    /\ UNCHANGED <<alive, audioBusy, userVoiceChannel, files, ev, previous, call>>

\* JoinVoice, but the Disconnect is deferred only after a successful join.
JoinVoiceDeferringLate(p) ==
    /\ alive
    /\ pc[p] = "join"
    /\ fx' = Bump(p, "joins")
    /\ \/ /\ pc' = [pc EXCEPT ![p] = "stream"]
          /\ UNCHANGED outcome
       \/ /\ pc' = [pc EXCEPT ![p] = "clear"]
          /\ outcome' = [outcome EXCEPT ![p] = "joinfailed"]
    /\ UNCHANGED <<alive, audioBusy, userVoiceChannel, files, ev, previous, call>>

\* session.ChannelVoiceJoin; the deferred Disconnect is registered before the
\* error is looked at, so it runs after a failed join too.
JoinVoice(p) ==
    /\ alive
    /\ pc[p] = "join"
    /\ fx' = Bump(p, "joins")
    /\ \/ /\ pc' = [pc EXCEPT ![p] = "stream"]
          /\ UNCHANGED outcome
       \/ /\ pc' = [pc EXCEPT ![p] = "disconnect"]
          /\ outcome' = [outcome EXCEPT ![p] = "joinfailed"]
    /\ UNCHANGED <<alive, audioBusy, userVoiceChannel, files, ev, previous, call>>

\* dca.NewStream(decoder, voiceConnection, done); context.WithTimeout(10 s)
StartStream(p) ==
    /\ alive
    /\ pc[p] = "stream"
    /\ fx' = Bump(p, "streams")
    /\ pc' = [pc EXCEPT ![p] = "wait"]
    /\ UNCHANGED <<alive, audioBusy, userVoiceChannel, files, ev, previous, call, outcome>>

\* How the select on ctx.Done() and done can end; "panic" is a panic raised
\* while the handler waits, which unwinds through the deferred calls.
StreamEnds == {"played", "timeout", "streamerror", "panic"}

\* AwaitStream, but the select has no case for ctx.Done(): when the stream
\* never signals completion the handler stays blocked.
AwaitStreamWithoutTimeout(p) ==
    /\ alive
    /\ pc[p] = "wait"
    /\ \/ \E r \in StreamEnds \ {"timeout"} :
            /\ outcome' = [outcome EXCEPT ![p] = r]
            /\ pc' = [pc EXCEPT ![p] = "disconnect"]
       \/ /\ pc' = [pc EXCEPT ![p] = "blocked"]
          /\ UNCHANGED outcome
    /\ UNCHANGED <<alive, audioBusy, userVoiceChannel, files, ev, previous, call, fx>>

\* select { case <-ctx.Done(): ... case err := <-done: ... }
AwaitStream(p) ==
    /\ alive
    /\ pc[p] = "wait"
    /\ \E r \in StreamEnds : outcome' = [outcome EXCEPT ![p] = r]
    /\ pc' = [pc EXCEPT ![p] = "disconnect"]
    /\ UNCHANGED <<alive, audioBusy, userVoiceChannel, files, ev, previous, call, fx>>

\* defer func() { err = voiceConnection.Disconnect(); ... log ... }()
Disconnect(p) ==
    /\ alive
    /\ pc[p] = "disconnect"
    /\ fx' = Bump(p, "disconnects")
    /\ pc' = [pc EXCEPT ![p] = "clear"]
    /\ UNCHANGED <<alive, audioBusy, userVoiceChannel, files, ev, previous, call, outcome>>

\* The handler's locals are gone when its goroutine ends.
Forget(p) ==
    /\ pc' = [pc EXCEPT ![p] = "idle"]
    /\ ev' = [ev EXCEPT ![p] = NoEvent]
    /\ previous' = [previous EXCEPT ![p] = NoPrevious]
    /\ call' = [call EXCEPT ![p] = NoCall]
    /\ outcome' = [outcome EXCEPT ![p] = "none"]
    /\ fx' = [fx EXCEPT ![p] = NoFx]

\* defer func() { audioBusy = false }(): the last deferred call, after which
\* playSound and the handler that called it return.  A panic is recovered by
\* onMessage's deferred recover(); onVoiceStateUpdate has none, so there the
\* panic ends the process.
ClearBusy(p) ==
    /\ alive
    /\ pc[p] = "clear"
    /\ audioBusy' = FALSE
    /\ alive' = ~(outcome[p] = "panic" /\ ev[p].kind = "voice")
    /\ Forget(p)
    /\ UNCHANGED <<userVoiceChannel, files>>

\* A handler that returned early (or whose playSound call was dropped at the
\* gate) ends.
Return(p) ==
    /\ alive
    /\ pc[p] = "ret"
    /\ Forget(p)
    /\ UNCHANGED <<alive, audioBusy, userVoiceChannel, files>>

playSound(p) ==
    \/ Gate(p)
    \/ SetBusy(p)
    \/ CheckCached(p)
    \/ ConvertCreate(p)
    \/ ConvertCopy(p)
    \/ OpenArtifact(p)
    \/ JoinVoice(p)
    \/ StartStream(p)
    \/ AwaitStream(p)
    \/ Disconnect(p)
    \/ ClearBusy(p)

\* The record of the cache check a step of playSound completes.  p leaves the
\* check at its hit, leaves convertAndCache at the failed os.Create, or leaves
\* it after io.Copy.
EnsureObserved ==
    ensured' =
        IF \E p \in Procs : pc[p] \in {"check", "create", "copy"} /\ pc'[p] = "open"
        THEN LET p == CHOOSE q \in Procs : pc[q] \in {"check", "create", "copy"} /\ pc'[q] = "open"
             IN  [soundName |-> call[p].soundName,
                  soundPath |-> getConvertedSoundCachePath(call[p].soundName),
                  result |-> CASE pc[p] = "check"  -> "cached"
                               [] pc[p] = "create" -> "createfailed"
                               [] OTHER -> IF fx'[p].encodeErrors > fx[p].encodeErrors
                                           THEN "copyfailed" ELSE "encoded"]
        ELSE ensured

\* The handlers in handlers run concurrently on the events the gateway delivers,
\* from dg.Open() until the process ends.
Handlers(handlers, voiceEvents, akuMessages) ==
    /\ main \in {"serving", "closing"}
    /\ \E p \in handlers :
          \/ \E e \in voiceEvents : onVoiceStateUpdate(p, e)
          \/ \E e \in akuMessages : onMessageAku(p, e)
          \/ playSound(p)
          \/ Return(p)

(* ----------------- playback under concurrent handlers ----------------- *)

\* u1 (who has an entry sound) is outside voice, u2 sits in a channel of g2.
PlayPresence ==
    {[n \in Usernames |->
        CASE n = "alice#0001" -> voiceChannelState("", "g1")
          [] n = "bob#0002"   -> voiceChannelState("c2", "g2")
          [] OTHER            -> voiceChannelState("", "g1")]}

\* u1 joins and leaves a voice channel of g1.
PlayVoiceEvents ==
    {e \in VoiceEvents : e.user = "u1" /\ e.guild = "g1" /\ e.channel \in {"", "c1"}
                         /\ e.lookup = "ok"}

\* u2 asks for a sound from a text channel of g2.
PlayAkuMessages ==
    {e \in AkuMessages : e.user = "u2" /\ e.guild = "g2" /\ e.arg \in {"airhorn", "nosuchsound"}}

\* Startup pre-cached every entry sound.
PlayFiles ==
    {f \in InitialFiles : \A s \in EntrySounds : f[getConvertedSoundCachePath(s)] = "complete"}

Spec ==
    /\ InitOf(PlayPresence, PlayFiles)
    /\ [][/\ Handlers(Procs, PlayVoiceEvents, PlayAkuMessages)
          /\ UNCHANGED <<helpVars, mainVars, ensured, disconnected, renderVars, commandVars, bulkVars, sounds>>]_vars

\* One handler at a time, and the goroutine that is in playSound is scheduled
\* again and again: a pending step of its playSound call is taken in the end
\* (gateway calls return, and the 10 second timeout of the select fires).
SpecLive ==
    /\ InitOf(PlayPresence, PlayFiles)
    /\ [][/\ Handlers({1}, PlayVoiceEvents, PlayAkuMessages)
          /\ UNCHANGED <<helpVars, mainVars, ensured, disconnected, renderVars, commandVars, bulkVars, sounds>>]_vars
    /\ WF_playVars(playSound(1))

(* ------------------- leaving the voice channel ------------------------ *)

\* The record of the Disconnect call a step of playSound makes: the exit path
\* it is made on and whether it returned an error, which is logged and has no
\* other effect.
DisconnectObserved ==
    IF \E p \in Procs : pc[p] = "disconnect" /\ pc'[p] # "disconnect"
    THEN LET p == CHOOSE q \in Procs : pc[q] = "disconnect" /\ pc'[q] # "disconnect"
         IN  \E err \in BOOLEAN : disconnected' = [outcome |-> outcome[p], err |-> err]
    ELSE UNCHANGED disconnected

SpecTeardown ==
    /\ InitOf(PlayPresence, PlayFiles)
    /\ [][/\ Handlers({1}, PlayVoiceEvents, PlayAkuMessages)
          /\ DisconnectObserved
          /\ UNCHANGED <<helpVars, mainVars, ensured, renderVars, commandVars, bulkVars, sounds>>]_vars

(* ------------- the presence tracker, one event at a time -------------- *)

SpecPresence ==
    /\ InitOf(InitialPresence, InitialFiles)
    /\ [][/\ Handlers({1}, VoiceEvents, AkuMessages)
          /\ EnsureObserved
          /\ UNCHANGED <<helpVars, mainVars, disconnected, renderVars, commandVars, bulkVars, sounds>>]_vars

(* ------- the presence map under concurrent handlers, access by access ------- *)

\* Presence events of u2, who has no entry sound, and of the bot itself.
RaceVoiceEvents ==
    {e \in VoiceEvents : e.user \in {"u2", BotID} /\ e.guild = "g2"}

\* onVoiceStateUpdate up to previousVoiceChannel := userVoiceChannel[username]:
\* after the checks and lookups the handler enters the read of the map.
onVoiceStateUpdateLookups(p, e) ==
    /\ alive
    /\ pc[p] = "idle"
    /\ ev' = [ev EXCEPT ![p] = e]
    /\ IF e.user = BotID
       THEN /\ pc' = [pc EXCEPT ![p] = "ret"]
            /\ outcome' = [outcome EXCEPT ![p] = "self"]
       ELSE IF e.lookup # "ok"
       THEN /\ pc' = [pc EXCEPT ![p] = "ret"]
            /\ outcome' = [outcome EXCEPT ![p] = e.lookup]
       ELSE /\ pc' = [pc EXCEPT ![p] = "mapread"]
            /\ UNCHANGED outcome
    /\ UNCHANGED <<alive, audioBusy, userVoiceChannel, files, previous, call, fx>>

\* The read of the map ends with the record stored then (or the zero value),
\* and the handler enters userVoiceChannel[username] = newVoiceState.
onVoiceStateUpdateRead(p) ==
    /\ alive
    /\ pc[p] = "mapread"
    /\ previous' = [previous EXCEPT
                      ![p] = MapGet(userVoiceChannel, getUniqueUsername(ev[p].user))]
    /\ pc' = [pc EXCEPT ![p] = "mapwrite"]
    /\ UNCHANGED <<alive, audioBusy, userVoiceChannel, files, ev, call, outcome, fx>>

\* The write of the map ends, and the handler goes on to the entry sound: the
\* user has none or the trigger condition fails, and it returns, or it calls
\* playSound.
onVoiceStateUpdateWrite(p) ==
    /\ alive
    /\ pc[p] = "mapwrite"
    /\ LET e == ev[p]
           username == getUniqueUsername(e.user)
           newVoiceState == voiceChannelState(e.channel, e.guild)
       IN  /\ userVoiceChannel' = [userVoiceChannel EXCEPT ![username] = newVoiceState]
           /\ IF username \notin DOMAIN audioAssets
              THEN /\ pc' = [pc EXCEPT ![p] = "ret"]
                   /\ outcome' = [outcome EXCEPT ![p] = "noentrysound"]
                   /\ UNCHANGED call
              ELSE IF ShouldPlayEntry(previous[p], newVoiceState, AfkChannelID[e.guild])
              THEN /\ pc' = [pc EXCEPT ![p] = "gate"]
                   /\ outcome' = [outcome EXCEPT ![p] = "none"]
                   /\ call' = [call EXCEPT ![p] =
                                 [soundName |-> username,
                                  soundPath |-> audioAssets[username],
                                  target |-> newVoiceState]]
              ELSE /\ pc' = [pc EXCEPT ![p] = "ret"]
                   /\ outcome' = [outcome EXCEPT ![p] = "notrigger"]
                   /\ UNCHANGED call
    /\ UNCHANGED <<alive, audioBusy, files, ev, previous, fx>>

\* Two handlers are in accesses of userVoiceChannel at once, one of them writing.
RacingOnPresence ==
    \E p, q \in Procs :
        p # q /\ pc[p] = "mapwrite" /\ pc[q] \in {"mapread", "mapwrite"}

\* The map is a plain Go map: when accesses race, the runtime may notice and
\* end the process ("fatal error: concurrent map writes"), or not notice.
ConcurrentMapAccess ==
    /\ alive
    /\ RacingOnPresence
    /\ alive' = FALSE
    /\ UNCHANGED <<audioBusy, userVoiceChannel, files, pc, ev, previous, call, outcome, fx>>

SpecRace ==
    /\ InitOf(PlayPresence, PlayFiles)
    /\ [][/\ \/ \E p \in Procs :
                  \/ \E e \in RaceVoiceEvents : onVoiceStateUpdateLookups(p, e)
                  \/ onVoiceStateUpdateRead(p)
                  \/ onVoiceStateUpdateWrite(p)
                  \/ Return(p)
             \/ ConcurrentMapAccess
          /\ UNCHANGED <<helpVars, mainVars, ensured, disconnected, renderVars, commandVars, bulkVars, sounds>>]_vars

(* ----------------- help sessions, one event at a time ---------------- *)

SpecHelp ==
    /\ InitOf(PlayPresence, PlayFiles)
    /\ [][/\ HelpHandlers({1})
          /\ UNCHANGED <<playVars, mainVars, ensured, disconnected, renderVars, commandVars, bulkVars, sounds>>]_vars

(* -------------------- main: startup and shutdown ---------------------- *)

\* What an earlier run can have left at convertedSoundCachePath: nothing (it
\* cleaned up), a directory (it ended without its deferred calls), or
\* something that is not a directory.
CacheDirStates == {"missing", "directory", "file"}

\* The artifacts an earlier run can have left in a directory it left behind.
LeftBehind(dir) ==
    IF dir = "directory"
    THEN [CachePaths -> {"absent", "stale"}]
    ELSE {[path \in CachePaths |-> "absent"]}

\* What main leaves alone: the handlers have not started, or go on by themselves.
MainFrame == UNCHANGED <<audioBusy, userVoiceChannel, pc, ev, previous, call, outcome, fx>>

\* initializeConvertedSoundCache, first part: ensureDirectory creates the
\* directory if nothing is there and accepts a directory that is there as it
\* is; on an error log.Fatal ends the process.
ensureDirectory ==
    /\ alive
    /\ main = "start"
    /\ \/ /\ cacheDir = "missing"
          /\ cacheDir' = "directory"
          /\ main' = "precache"
          /\ UNCHANGED alive
       \/ /\ cacheDir = "directory"
          /\ main' = "precache"
          /\ UNCHANGED <<cacheDir, alive>>
       \/ /\ cacheDir \in {"missing", "file"}
          /\ main' = "fatal"
          /\ alive' = FALSE
          /\ UNCHANGED cacheDir
    /\ UNCHANGED <<files, removed>>
    /\ MainFrame

\* What convertAndCache can leave at an artifact path that held before:
\* the whole encode, a part of it (io.Copy failed), or before (os.Create failed).
Converted(before) == {"complete", "partial", before}

\* initializeConvertedSoundCache, second part: convertAndCache for every
\* entry sound, one after the other, before any handler runs.
PreCache ==
    /\ alive
    /\ main = "precache"
    /\ files' \in {f \in [CachePaths -> {"absent", "partial", "complete", "stale"}] :
                     \A s \in SoundNames :
                         LET path == getConvertedSoundCachePath(s)
                         IN  IF s \in EntrySounds
                             THEN f[path] \in Converted(files[path])
                             ELSE f[path] = files[path]}
    /\ main' = "open"
    /\ UNCHANGED <<alive, cacheDir, removed>>
    /\ MainFrame

\* The rest of startup up to dg.Open(): if it fails, log.Fatal and os.Exit(1)
\* end the process without running the deferred calls.
OpenSession ==
    /\ alive
    /\ main = "open"
    /\ \/ main' = "serving" /\ UNCHANGED alive
       \/ main' = "fatal" /\ alive' = FALSE
    /\ UNCHANGED <<files, cacheDir, removed>>
    /\ MainFrame

\* SIGINT or SIGTERM arrives.  Once signal.Notify has run, main is waiting at
\* <-sc and returns, which runs its deferred calls; before that the signal has
\* its default action and ends the process at once.
Signal ==
    /\ alive
    /\ \/ /\ main = "serving"
          /\ main' = "closing"
          /\ UNCHANGED alive
       \/ /\ main \in {"start", "precache", "open"}
          /\ main' = "killed"
          /\ alive' = FALSE
    /\ UNCHANGED <<files, cacheDir, removed>>
    /\ MainFrame

\* cleanUpCache, but only the artifacts of the entry sounds are removed.
cleanUpEntrySounds ==
    /\ alive
    /\ main = "closing"
    /\ \/ /\ files' = [path \in CachePaths |->
                         IF \E s \in EntrySounds : path = getConvertedSoundCachePath(s)
                         THEN "absent" ELSE files[path]]
          /\ removed' = "ok"
          /\ UNCHANGED cacheDir
       \/ /\ removed' = "failed"
          /\ UNCHANGED <<files, cacheDir>>
    /\ main' = "exited"
    /\ alive' = FALSE
    /\ MainFrame

\* defer cleanUpCache(convertedSoundCachePath): os.RemoveAll removes the
\* directory and all in it, or fails, which is logged; then main returns and
\* the process ends.
cleanUpCache ==
    /\ alive
    /\ main = "closing"
    /\ \/ /\ files' = [path \in CachePaths |-> "absent"]
          /\ cacheDir' = "missing"
          /\ removed' = "ok"
       \/ /\ removed' = "failed"
          /\ UNCHANGED <<files, cacheDir>>
    /\ main' = "exited"
    /\ alive' = FALSE
    /\ MainFrame

\* main from its first statement to the end of the process, with one handler
\* at a time while the session is open.
SpecLifecycle ==
    /\ \E dir \in CacheDirStates :
          /\ cacheDir = dir
          /\ InitHandlers(PlayPresence, LeftBehind(dir))
    /\ main = "start"
    /\ removed = "notcalled"
    /\ pageSize = stringsPerPage
    /\ strings = <<>>
    /\ pages = <<>>
    /\ message = <<>>
    /\ parsed = NotParsed
    /\ platform = NoPlatform
    /\ guildsLeft = <<>>
    /\ processed = {}
    /\ recent = {}
    /\ sounds = <<>>
    /\ [][/\ \/ ensureDirectory
             \/ PreCache
             \/ OpenSession
             \/ Signal
             \/ cleanUpCache
             \/ Handlers({1}, PlayVoiceEvents, PlayAkuMessages) /\ UNCHANGED mainVars
          /\ UNCHANGED <<helpVars, ensured, disconnected, renderVars, commandVars, bulkVars, sounds>>]_vars

(* ------------------- rendering a list page by page -------------------- *)

MaxStrings == 50

stickersPerRow == 4
stickerRowsPerPage == 6
stickersPerPage == stickersPerRow * stickerRowsPerPage

\* The page sizes getPageRange is called with.
PageSizes == {stringsPerPage, stickersPerPage}

\* A sorted list of n entries, for each n up to MaxStrings.
SortedLists == {[i \in 1 .. n |-> i] : n \in 0 .. MaxStrings}

\* getPageRange, but the last page is cut one entry short.
getPageRangeShortLast(page, totalResults, resultsPerPage) ==
    LET pageStart == page * resultsPerPage
        pageEnd == (page + 1) * resultsPerPage
    IN  <<pageStart, IF pageEnd >= totalResults THEN totalResults - 1 ELSE pageEnd>>

\* pageStart := page * resultsPerPage; pageEnd := (page + 1) * resultsPerPage;
\* if pageEnd > totalResults { pageEnd = totalResults }
getPageRange(page, totalResults, resultsPerPage) ==
    LET pageStart == page * resultsPerPage
        pageEnd == (page + 1) * resultsPerPage
    IN  <<pageStart, IF pageEnd > totalResults THEN totalResults ELSE pageEnd>>

\* The slice allContents[pageStart:pageEnd] (indices from 0, end excluded).
Slice(allContents, pageStart, pageEnd) == SubSeq(allContents, pageStart + 1, pageEnd)

\* The entries the closure of renderPaginatedStrings puts on a page.
renderPaginatedStrings(allContents, page, resultsPerPage) ==
    LET range == getPageRange(page, Len(allContents), resultsPerPage)
    IN  Slice(allContents, range[1], range[2])

\* The next page of the list is rendered, while there is one.
RenderNextPage ==
    /\ Len(pages) < totalPages(Len(strings), pageSize)
    /\ pages' = Append(pages, renderPaginatedStrings(strings, Len(pages), pageSize))
    /\ UNCHANGED <<pageSize, strings>>

SpecRender ==
    /\ InitHandlers(PlayPresence, PlayFiles)
    /\ main = "serving"
    /\ cacheDir = "directory"
    /\ removed = "notcalled"
    /\ pageSize \in PageSizes
    /\ strings \in SortedLists
    /\ pages = <<>>
    /\ message = <<>>
    /\ parsed = NotParsed
    /\ platform = NoPlatform
    /\ guildsLeft = <<>>
    /\ processed = {}
    /\ recent = {}
    /\ sounds = <<>>
    /\ [][/\ RenderNextPage
          /\ UNCHANGED <<playVars, helpVars, mainVars, ensured, disconnected, commandVars, bulkVars, sounds>>]_vars

(* ------------------------- sticker help pages ------------------------- *)

ManyStickers == 49

\* A sticker file of a pack directory, and the "sources" directory a pack
\* keeps next to its stickers.
StickerFile(i) == [name |-> "sticker", n |-> i, isDir |-> FALSE]
SourcesDirectory == [name |-> "sources", n |-> 0, isDir |-> TRUE]

\* What ioutil.ReadDir finds under stickerPath, pack by pack: "bare" holds no
\* sticker at all.
stickerPath ==
    [pack \in {"bare", "blobs", "memes"} |->
        CASE pack = "bare"  -> {SourcesDirectory}
          [] pack = "blobs" -> {StickerFile(i) : i \in 1 .. SmallCount}
          [] OTHER          -> {StickerFile(i) : i \in 1 .. ManyStickers} \cup {SourcesDirectory}]

\* loadAssets(stickerPath): helpMap[category] lists the entries of the
\* category's directory that are not directories; as for audioHelp, only their
\* number is kept.
stickerHelp ==
    [pack \in DOMAIN stickerPath |-> Cardinality({asset \in stickerPath[pack] : ~asset.isDir})]

\* getDirectoryContents: every entry of the directory but the one named "sources"
getDirectoryContents(directory) == {f \in directory : f.name # "sources"}

\* cacheStickerPackPages: the number of page images made for the pack
cacheStickerPackPages(packName) ==
    LET packContents == getDirectoryContents(stickerPath[packName])
        totalStickers == Cardinality(packContents)
    IN  totalPages(totalStickers, stickersPerRow * stickerRowsPerPage)

\* initializeStickerPageCache(getMapKeys(&stickerHelp)): stickerPackPages, as
\* the length of each pack's slice of page paths
stickerPackPages == [packName \in DOMAIN stickerHelp |-> cacheStickerPackPages(packName)]

\* initializeStickerHelpPage, for a pack found in stickerPackPages
initializeStickerHelpPage(packName) ==
    [name |-> "sticker/" \o packName,
     page |-> 0,
     totalPages |-> stickerPackPages[packName]]

\* initializeCategoryRootHelpPage("sticker", &stickerHelp)
initializeStickerRootHelpPage ==
    [name |-> "sticker",
     page |-> 0,
     totalPages |-> totalPages(Cardinality(DOMAIN stickerHelp), stringsPerPage)]

\* What a chat user can type after "!akush"; "" asks for the list of packs.
StickerHelpArguments == DOMAIN stickerHelp \cup {"", "nosuchpack"}

\* The "!akush [pack]" messages the gateway can deliver; ok is whether
\* session.ChannelMessageSendEmbed succeeds for the answer.
AkushMessages ==
    {[kind |-> "akush", user |-> u, arg |-> a, message |-> 0, emoji |-> "", ok |-> k] :
        u \in {"u1", BotID}, a \in StickerHelpArguments, k \in BOOLEAN}

\* onMessage, case "!akush": sendStickerHelp and sendHelp.
onMessageAkush(p, e) ==
    /\ hpc[p] = "idle"
    /\ hev' = [hev EXCEPT ![p] = e]
    /\ hpc' = [hpc EXCEPT ![p] = "ret"]
    /\ UNCHANGED helpPage
    /\ IF e.user = BotID
       THEN /\ hout' = [hout EXCEPT ![p] = "self"]
            /\ UNCHANGED <<activeHelpPages, shown, sent, reactions>>
       ELSE IF e.arg # "" /\ e.arg \notin DOMAIN stickerPackPages
       THEN /\ hout' = [hout EXCEPT ![p] = "nosuchcategory"]
            /\ UNCHANGED <<activeHelpPages, shown, sent, reactions>>
       ELSE IF ~e.ok \/ sent = MaxMessages
       THEN /\ hout' = [hout EXCEPT ![p] = "sendfailed"]
            /\ UNCHANGED <<activeHelpPages, shown, sent, reactions>>
       ELSE LET page == IF e.arg = "" THEN initializeStickerRootHelpPage
                                      ELSE initializeStickerHelpPage(e.arg)
                messageID == sent + 1
            IN  /\ sent' = messageID
                /\ shown' = [shown EXCEPT ![messageID] = page.page]
                /\ reactions' = [reactions EXCEPT
                                    ![messageID] = initializeReactions(paginationReactions)]
                /\ activeHelpPages' = [activeHelpPages EXCEPT ![messageID] = page]
                /\ hout' = [hout EXCEPT ![p] = "sent"]

\* The page-turning reactions among ReactionEvents, on help messages.
PageTurns ==
    {e \in ReactionEvents : e.message \in MessageIDs /\ e.emoji \in paginationReactions /\ e.ok}

\* Help sessions of both kinds, and their pages turned.
SpecSessions ==
    /\ InitOf(PlayPresence, PlayFiles)
    /\ [][/\ \/ \E e \in AkuhMessages : onMessageAkuh(1, e)
             \/ \E e \in AkushMessages : onMessageAkush(1, e)
             \/ \E e \in PageTurns : onMessageReactionAdd(1, e)
             \/ EditMessage(1)
             \/ ReturnHelp(1)
          /\ UNCHANGED <<playVars, mainVars, ensured, disconnected, renderVars, commandVars, bulkVars, sounds>>]_vars

(* ------------------- the argument of a chat command ------------------- *)

MaxArgument == 4

\* The characters a message is typed with; "!aku" stands for those four
\* characters in a row.
Characters == {"a", "b", " "}

RECURSIVE TextsOf(_)
TextsOf(n) ==
    IF n = 0
    THEN {<<>>}
    ELSE LET shorter == TextsOf(n - 1)
         IN  shorter \cup {Append(t, c) : t \in {u \in shorter : Len(u) = n - 1}, c \in Characters}

\* message.Content: "!aku" and up to MaxArgument characters after it.
Messages == {<<"!aku">> \o t : t \in TextsOf(MaxArgument)}

\* strings.TrimSpace: leading and trailing white space removed
RECURSIVE TrimSpace(_)
TrimSpace(s) ==
    IF s = <<>> THEN s
    ELSE IF Head(s) = " " THEN TrimSpace(Tail(s))
    ELSE IF s[Len(s)] = " " THEN TrimSpace(SubSeq(s, 1, Len(s) - 1))
    ELSE s

\* strings.Replace(s, old, new, n), for old and new of one character: the
\* first n occurrences of old are replaced, all of them if n < 0, none if n = 0.
RECURSIVE Replace(_, _, _, _)
Replace(s, old, new, n) ==
    IF n = 0 \/ s = <<>> THEN s
    ELSE IF Head(s) = old THEN <<new>> \o Replace(Tail(s), old, new, n - 1)
    ELSE <<Head(s)>> \o Replace(Tail(s), old, new, n)

\* return strings.Replace(strings.TrimSpace(command), " ", "_", 0)
getAssetFromCommand(command) == Replace(TrimSpace(command), " ", "_", 0)

\* strings.SplitN(s, " ", 2): s cut at its first space, or s alone if it has none
SplitN2(s) ==
    IF \E i \in 1 .. Len(s) : s[i] = " "
    THEN LET first == CHOOSE i \in 1 .. Len(s) : s[i] = " " /\ \A j \in 1 .. i - 1 : s[j] # " "
         IN  <<SubSeq(s, 1, first - 1), SubSeq(s, first + 1, Len(s))>>
    ELSE <<s>>

getCommandFromMessage(content) ==
    LET parts == SplitN2(content)
    IN  IF Len(parts) = 1
        THEN [command |-> parts[1], argument |-> <<>>]
        ELSE [command |-> parts[1], argument |-> getAssetFromCommand(parts[2])]

\* onMessage: var command, argument = getCommandFromMessage(message.Content)
ParseMessage ==
    /\ parsed = NotParsed
    /\ parsed' = getCommandFromMessage(message)
    /\ UNCHANGED message

SpecCommand ==
    /\ InitHandlers(PlayPresence, PlayFiles)
    /\ main = "serving"
    /\ cacheDir = "directory"
    /\ removed = "notcalled"
    /\ pageSize = stringsPerPage
    /\ strings = <<>>
    /\ pages = <<>>
    /\ message \in Messages
    /\ parsed = NotParsed
    /\ platform = NoPlatform
    /\ guildsLeft = <<>>
    /\ processed = {}
    /\ recent = {}
    /\ sounds = <<>>
    /\ [][/\ ParseMessage
          /\ UNCHANGED <<playVars, helpVars, mainVars, ensured, disconnected, renderVars, bulkVars, sounds>>]_vars

(* ------------------ building the presence map at startup -------------- *)

\* The users the platform knows besides the bot.
Members == UserIDs \ {BotID}

\* What the platform can answer to populateInitialVoiceState: the members
\* session.GuildMembers returns for each guild (a user can be in several, and
\* a member past the first 1000 is not returned), where each user is connected
\* (a user is connected to one voice channel at most), whether the fetch of a
\* guild's members succeeds, and whether session.User finds a user.
Platforms ==
    [members : [Guilds -> SUBSET Members],
     connected : [Members -> VoiceStates],
     fetched : [Guilds -> BOOLEAN],
     found : [Members -> BOOLEAN]]

\* session.State.Guilds, in each order it can have.
GuildOrders == {<<"g1", "g2">>, <<"g2", "g1">>}

\* guild.VoiceStates: the users connected to a voice channel of the guild
GuildVoiceStates(guild) ==
    {u \in Members : platform.connected[u].guild = guild /\ platform.connected[u].channel # ""}

\* The loop over members, without the test for a record already there.
defaultMembersOverwriting(map, guild) ==
    [n \in DOMAIN map |->
        IF \E u \in platform.members[guild] : getUniqueUsername(u) = n
        THEN voiceChannelState("", guild)
        ELSE map[n]]

\* for _, member := range members: a member without a record gets
\* voiceChannelState{"", guild.ID}
defaultMembers(map, guild) ==
    [n \in DOMAIN map |->
        IF map[n] = Missing /\ \E u \in platform.members[guild] : getUniqueUsername(u) = n
        THEN voiceChannelState("", guild)
        ELSE map[n]]

\* for _, voiceState := range guild.VoiceStates: the record of each user that
\* session.User finds is replaced by the voice state's channel and guild
overlayVoiceStates(map, guild) ==
    [n \in DOMAIN map |->
        IF \E u \in GuildVoiceStates(guild) : platform.found[u] /\ getUniqueUsername(u) = n
        THEN LET u == CHOOSE v \in GuildVoiceStates(guild) : getUniqueUsername(v) = n
             IN  voiceChannelState(platform.connected[u].channel, platform.connected[u].guild)
        ELSE map[n]]

\* populateInitialVoiceState: one turn of the loop over session.State.Guilds.
populateInitialVoiceState ==
    /\ guildsLeft # <<>>
    /\ guildsLeft' = Tail(guildsLeft)
    /\ LET guild == Head(guildsLeft)
       IN  IF platform.fetched[guild]
           THEN /\ userVoiceChannel' = overlayVoiceStates(defaultMembers(userVoiceChannel, guild), guild)
                /\ processed' = processed \cup {guild}
           ELSE UNCHANGED <<userVoiceChannel, processed>>
    /\ UNCHANGED <<platform, recent, alive, audioBusy, files, pc, ev, previous, call, outcome, fx>>

SpecBulk ==
    /\ InitHandlers({[n \in Usernames |-> Missing]}, PlayFiles)
    /\ main = "serving"
    /\ cacheDir = "directory"
    /\ removed = "notcalled"
    /\ pageSize = stringsPerPage
    /\ strings = <<>>
    /\ pages = <<>>
    /\ message = <<>>
    /\ parsed = NotParsed
    /\ platform \in Platforms
    /\ guildsLeft \in GuildOrders
    /\ processed = {}
    /\ recent = {}
    /\ sounds = <<>>
    /\ [][/\ populateInitialVoiceState
          /\ UNCHANGED <<helpVars, mainVars, ensured, disconnected, renderVars, commandVars, sounds>>]_vars

(* ------------- the presence map while onReady builds it --------------- *)

\* What the platform answers when every fetch succeeds and both users are
\* members of both guilds.
ReadyPlatforms ==
    {pl \in Platforms :
        /\ \A g \in Guilds : pl.fetched[g] /\ pl.members[g] = Members
        /\ \A u \in Members : pl.found[u]}

\* The presence events of u2 that reach the map.
ReadyVoiceEvents == {e \in VoiceEvents : e.user = "u2" /\ e.lookup = "ok"}

\* onReady, on a ready event after the first: populateInitialVoiceState starts
\* again with userVoiceChannel = make(map[string]voiceChannelState).
onReady ==
    /\ guildsLeft = <<>>
    /\ userVoiceChannel' = [n \in Usernames |-> Missing]
    /\ guildsLeft' \in GuildOrders
    /\ processed' = {}
    /\ recent' = {}
    /\ UNCHANGED <<platform, alive, audioBusy, files, pc, ev, previous, call, outcome, fx>>

\* populateInitialVoiceState for the next guild, up to the loop over
\* guild.VoiceStates: the members are fetched and given their default record,
\* and the guild's voice states are read.
populateMembers ==
    /\ guildsLeft # <<>>
    /\ Head(guildsLeft) \notin processed
    /\ LET guild == Head(guildsLeft)
       IN  IF platform.fetched[guild]
           THEN /\ userVoiceChannel' = defaultMembers(userVoiceChannel, guild)
                /\ processed' = processed \cup {guild}
                /\ recent' = {}
                /\ UNCHANGED guildsLeft
           ELSE /\ guildsLeft' = Tail(guildsLeft)
                /\ UNCHANGED <<userVoiceChannel, processed, recent>>
    /\ UNCHANGED <<platform, alive, audioBusy, files, pc, ev, previous, call, outcome, fx>>

\* The loop over the voice states read: after session.User has answered, the
\* record of each is stored.
populateVoiceStates ==
    /\ guildsLeft # <<>>
    /\ Head(guildsLeft) \in processed
    /\ userVoiceChannel' = overlayVoiceStates(userVoiceChannel, Head(guildsLeft))
    /\ guildsLeft' = Tail(guildsLeft)
    /\ UNCHANGED <<platform, processed, recent, alive, audioBusy, files, pc, ev, previous, call,
                   outcome, fx>>

\* onVoiceStateUpdate on its own goroutine while onReady's runs.
onVoiceStateUpdateWhileReady(p) ==
    /\ \E e \in ReadyVoiceEvents : onVoiceStateUpdate(p, e)
    /\ recent' = recent \cup {getUniqueUsername(ev'[p].user)}
    /\ UNCHANGED <<platform, guildsLeft, processed>>

\* From the first statement of populateInitialVoiceState on the first ready
\* event, with the gateway delivering presence events meanwhile.
SpecReady ==
    /\ InitHandlers({[n \in Usernames |-> Missing]}, PlayFiles)
    /\ main = "serving"
    /\ cacheDir = "directory"
    /\ removed = "notcalled"
    /\ pageSize = stringsPerPage
    /\ strings = <<>>
    /\ pages = <<>>
    /\ message = <<>>
    /\ parsed = NotParsed
    /\ platform \in ReadyPlatforms
    /\ guildsLeft \in GuildOrders
    /\ processed = {}
    /\ recent = {}
    /\ sounds = <<>>
    /\ [][/\ \/ onReady
             \/ populateMembers
             \/ populateVoiceStates
             \/ onVoiceStateUpdateWhileReady(1)
             \/ Return(1) /\ UNCHANGED bulkVars
          /\ UNCHANGED <<helpVars, mainVars, ensured, disconnected, renderVars, commandVars, sounds>>]_vars

(* ------------------- the catalog's list of a category ------------------ *)

MaxName == 3
MaxSounds == 2

\* The byte each character is stored as.
Byte(c) ==
    CASE c = " " -> 32
      [] c = "." -> 46
      [] c = "3" -> 51
      [] c = "a" -> 97
      [] c = "b" -> 98
      [] c = "m" -> 109
      [] OTHER   -> 112

\* Go's s < t on strings: byte by byte, a proper prefix first.
RECURSIVE Less(_, _)
Less(s, t) ==
    IF t = <<>> THEN FALSE
    ELSE IF s = <<>> THEN TRUE
    ELSE IF Head(s) # Head(t) THEN Byte(Head(s)) < Byte(Head(t))
    ELSE Less(Tail(s), Tail(t))

\* The strings of a set in increasing order: what ioutil.ReadDir does with the
\* file names of a directory, and sort.Strings with a slice.
RECURSIVE Ascending(_)
Ascending(S) ==
    IF S = {} THEN <<>>
    ELSE LET least == CHOOSE s \in S : \A t \in S \ {s} : Less(s, t)
         IN  <<least>> \o Ascending(S \ {least})

\* sort.Strings(sounds): the slice is sorted in place
sortStrings(list) == Ascending({list[i] : i \in 1 .. Len(list)})

\* The names the sound files of a category can have before their extension.
SoundNamesOnDisk == {t \in TextsOf(MaxName) : t # <<>> /\ Head(t) # " " /\ t[Len(t)] # " "}

FileName(name) == name \o <<".", "m", "p", "3">>

\* strings.TrimSuffix(assetPath, filepath.Ext(assetPath)): the name up to its
\* last dot
getNormalizedAssetName(assetFileName) ==
    LET dots == {i \in 1 .. Len(assetFileName) : assetFileName[i] = "."}
    IN  IF dots = {} THEN assetFileName
        ELSE SubSeq(assetFileName, 1, (CHOOSE i \in dots : \A j \in dots : j <= i) - 1)

\* loadAssets: helpMap[categoryName], the normalized names of the files of the
\* category's directory in the order ioutil.ReadDir returns them, by file name
loadAssets(names) ==
    LET categoryDir == Ascending({FileName(n) : n \in names})
    IN  [i \in 1 .. Len(categoryDir) |-> getNormalizedAssetName(categoryDir[i])]

\* The directories of a category with up to MaxSounds sound files.
CategoryDirectories == {names \in SUBSET SoundNamesOnDisk : Cardinality(names) <= MaxSounds}

\* initializeAudioCategoryHelpPage(category), on "!akuh <category>": sounds is
\* the slice the catalog holds for the category
ListCategory ==
    /\ sounds' = sortStrings(sounds)

SpecCatalog ==
    /\ InitHandlers(PlayPresence, PlayFiles)
    /\ main = "serving"
    /\ cacheDir = "directory"
    /\ removed = "notcalled"
    /\ pageSize = stringsPerPage
    /\ strings = <<>>
    /\ pages = <<>>
    /\ message = <<>>
    /\ parsed = NotParsed
    /\ platform = NoPlatform
    /\ guildsLeft = <<>>
    /\ processed = {}
    /\ recent = {}
    /\ sounds \in {loadAssets(names) : names \in CategoryDirectories}
    /\ [][/\ ListCategory
          /\ UNCHANGED <<playVars, helpVars, mainVars, ensured, disconnected, renderVars,
                         commandVars, bulkVars>>]_vars

(* ------------------- events caused by the bot itself ------------------- *)

\* The bot joins c1 of g1 to play a sound there, and leaves it.
BotVoiceEvents ==
    {e \in VoiceEvents : e.user = BotID /\ e.guild = "g1" /\ e.channel \in {"", "c1"}
                         /\ e.lookup = "ok"}

\* A message of the bot's own that reads as a command.
BotAkuMessages == {e \in AkuMessages : e.user = BotID /\ e.guild = "g1" /\ e.arg = "airhorn"}

\* "!akuh big" typed by u1 and by the bot, the answer being sent.
SelfAkuhMessages == {e \in AkuhMessages : e.arg = "big" /\ e.ok}

\* The pagination reactions u1 puts on a help message, and those the bot puts
\* there itself in initializeReactions.
SelfReactionEvents ==
    {e \in ReactionEvents : e.message \in MessageIDs /\ e.emoji \in paginationReactions /\ e.ok}

\* The events of user, one at a time, on handler p.
EventsOf(p, user) ==
    \/ /\ hpc[p] = "idle"
       /\ \/ \E e \in PlayVoiceEvents \cup BotVoiceEvents : e.user = user /\ onVoiceStateUpdate(p, e)
          \/ \E e \in BotAkuMessages : e.user = user /\ onMessageAku(p, e)
          \/ playSound(p)
          \/ Return(p)
       /\ UNCHANGED helpVars
    \/ /\ pc[p] = "idle"
       /\ \/ \E e \in SelfAkuhMessages : e.user = user /\ onMessageAkuh(p, e)
          \/ \E e \in SelfReactionEvents : e.user = user /\ onMessageReactionAdd(p, e)
          \/ EditMessage(p)
          \/ ReturnHelp(p)
       /\ UNCHANGED playVars

\* u1's events on one goroutine at a time, and the events the bot causes
\* meanwhile on another.
SpecSelf ==
    /\ InitOf(PlayPresence, PlayFiles)
    /\ [][/\ \/ EventsOf(1, "u1")
             \/ EventsOf(2, BotID)
          /\ UNCHANGED <<mainVars, ensured, disconnected, renderVars, commandVars, bulkVars, sounds>>]_vars

(* ======================= properties of playSound ======================= *)

\* Where a playSound call is between setting audioBusy and clearing it.
PastGate == {"check", "create", "copy", "open", "join", "stream", "wait", "disconnect", "clear"}

\* Where a handler is inside its playSound call.
InPlaySound == {"gate", "set"} \cup PastGate

\* C1: under concurrent handlers at most one playSound call is past the
\* busy-flag gate at any time (no two calls are between setting audioBusy and
\* clearing it).
C1_AtMostOnePastGate ==
    Cardinality({p \in Procs : pc[p] \in PastGate}) <= 1

\* C2: a playSound call that set audioBusy clears it on every exit path, so
\* whenever no playSound call is executing audioBusy is false.
C2_BusyClearedOnExit ==
    (\A p \in Procs : pc[p] \notin InPlaySound) => audioBusy = FALSE

\* C2 witness: a playSound call that encoded the airhorn is over, no call is
\* executing and the flag is clear.
C2_Witness ==
    /\ \A p \in Procs : pc[p] = "idle"
    /\ files[getConvertedSoundCachePath("airhorn")] # "absent"
    /\ audioBusy = FALSE

\* C3: a request that finds audioBusy set is dropped: it returns at once, having
\* made no cache lookup, no transcoder run, no artifact open, no voice join, no
\* stream and no disconnect, and keeps nothing that would be played later.
C3_DroppedDoesNothing ==
    \A p \in Procs :
        outcome[p] = "dropped" => pc[p] = "ret" /\ fx[p] = NoFx

\* C3 witness: a request was dropped while another call was streaming.
C3_Witness ==
    \E p, q \in Procs : outcome[p] = "dropped" /\ pc[p] = "ret" /\ pc[q] = "wait"

\* C4 as stated: every playSound call that passed the gate has made exactly one
\* join attempt, at most one stream start and exactly one disconnect attempt
\* when it is about to return.
C4_Original ==
    \A p \in Procs :
        pc[p] = "clear" =>
            fx[p].joins = 1 /\ fx[p].streams <= 1 /\ fx[p].disconnects = 1

\* C4 amended: a playSound call that passed the gate and opened the artifact has
\* made exactly one join attempt, at most one stream start and exactly one
\* disconnect attempt when it is about to return; a call whose artifact could not
\* be opened has made none of them; no call ever makes a second one.
C4_JoinStreamDisconnect ==
    \A p \in Procs :
        /\ fx[p].joins <= 1 /\ fx[p].streams <= 1 /\ fx[p].disconnects <= 1
        /\ pc[p] = "clear" =>
              IF outcome[p] = "openfailed"
              THEN fx[p].joins = 0 /\ fx[p].streams = 0 /\ fx[p].disconnects = 0
              ELSE fx[p].joins = 1 /\ fx[p].disconnects = 1

\* C4 witness: a call whose join failed is about to return: one join, no
\* stream, one disconnect.
C4_Witness ==
    \E p \in Procs :
        /\ pc[p] = "clear" /\ outcome[p] = "joinfailed"
        /\ fx[p].joins = 1 /\ fx[p].streams = 0 /\ fx[p].disconnects = 1

(* ==================== properties of help sessions ====================== *)

\* A reaction event of a user other than the bot on a message that has a help
\* session has been handled by handler p.
ReactionHandled(p) ==
    /\ hev[p].kind = "reaction"
    /\ hpc[p] = "ret"
    /\ hout[p] \in {"outofbounds", "edited", "editfailed"}

\* C5: for every stored help session, whatever its item count,
\* 0 <= page < totalPages holds after every reaction event handled for it.
C5_PageInRange ==
    \A p \in Procs :
        ReactionHandled(p) =>
            /\ 0 <= activeHelpPages[hev[p].message].page
            /\ activeHelpPages[hev[p].message].page < activeHelpPages[hev[p].message].totalPages

\* Handler p takes the first step of handling a reaction of a user other than
\* the bot on a message that has a help session.
ReactionStep(p) ==
    /\ hpc[p] = "idle"
    /\ hev'[p].kind = "reaction"
    /\ hev'[p].user # BotID
    /\ hev'[p].message \in MessageIDs
    /\ activeHelpPages[hev'[p].message] # NoHelpPage

\* The page a reaction asks for: one back for "previous", one on for "next".
CandidatePage(m, emoji) ==
    activeHelpPages[m].page
        + (IF emoji = nextPageEmoji THEN 1 ELSE 0)
        - (IF emoji = previousPageEmoji THEN 1 ELSE 0)

\* C6: a reaction whose candidate page is outside [0, totalPages) leaves the
\* stored session unchanged and issues no edit of the displayed message: the
\* handler goes straight to its return and the displayed page stays as it is.
C6_RejectedLeavesUnchanged ==
    [][\A p \in Procs :
          (/\ ReactionStep(p)
           /\ \/ CandidatePage(hev'[p].message, hev'[p].emoji) < 0
              \/ CandidatePage(hev'[p].message, hev'[p].emoji)
                     >= activeHelpPages[hev'[p].message].totalPages)
          => /\ activeHelpPages' = activeHelpPages
             /\ shown' = shown
             /\ hpc'[p] = "ret"]_vars

\* C6 witness: "next" on the last of several pages was rejected, and so was
\* "previous" on page 0 of another message.
C6_Witness ==
    \E p \in Procs :
        /\ hout[p] = "outofbounds"
        /\ hev[p].emoji = nextPageEmoji
        /\ activeHelpPages[hev[p].message].totalPages >= 2
        /\ activeHelpPages[hev[p].message].page = activeHelpPages[hev[p].message].totalPages - 1
        /\ shown[hev[p].message] = activeHelpPages[hev[p].message].page

(* ================== properties of the presence tracker ================= *)

\* Handler p has just run onVoiceStateUpdate's decision for its event: it read
\* the previous record and is either at the start of playSound or returning.
Decided(p) ==
    /\ ev[p].kind = "voice"
    /\ previous[p] # NoPrevious
    /\ pc[p] \in {"gate", "ret"}

HasEntrySound(userID) == getUniqueUsername(userID) \in DOMAIN audioAssets

\* C7: for a user who has an entry sound, the handler invokes playback if and
\* only if newChannel # "" and (previous.channel = "" or previous.channel is the
\* guild's AFK channel or previous.guild # newGuild).
C7_EntryTriggerIff ==
    \A p \in Procs :
        Decided(p) /\ HasEntrySound(ev[p].user) =>
            ((pc[p] = "gate" /\ call[p].soundName = getUniqueUsername(ev[p].user))
             <=> /\ ev[p].channel # ""
                 /\ \/ previous[p].channel = ""
                    \/ previous[p].channel = AfkChannelID[ev[p].guild]
                    \/ previous[p].guild # ev[p].guild)

\* C7 witness: u1 arrived from another guild and playback is invoked.
C7_Witness ==
    \E p \in Procs :
        /\ Decided(p) /\ pc[p] = "gate" /\ ev[p].user = "u1"
        /\ previous[p] = voiceChannelState("c2", "g2")
        /\ ev[p].guild = "g1" /\ ev[p].channel = "c1"

\* C8: an event in which the user leaves voice (new channel empty) never
\* invokes playback, whatever the previous record.
C8_LeavingNeverPlays ==
    \A p \in Procs :
        ev[p].kind = "voice" /\ ev[p].channel = "" =>
            pc[p] = "ret" /\ call[p] = NoCall /\ fx[p] = NoFx

\* C8 witness: u1, whose record was the AFK channel, left voice and nothing is played.
C8_Witness ==
    \E p \in Procs :
        /\ Decided(p) /\ ev[p].user = "u1" /\ ev[p].channel = ""
        /\ previous[p] = voiceChannelState("afk", "g1")
        /\ pc[p] = "ret" /\ outcome[p] = "notrigger"

\* C9 as stated: from a record (channel A, guild G), an event (channel B, guild G)
\* in the same guild, B not G's AFK channel, does not trigger the entry sound.
C9_Original ==
    \A p \in Procs :
        (/\ Decided(p)
         /\ previous[p].channel # "" /\ previous[p].guild = ev[p].guild
         /\ ev[p].channel # "" /\ ev[p].channel # AfkChannelID[ev[p].guild])
        => pc[p] # "gate"

\* C9 amended: from a record (channel A, guild G) where A is not G's AFK
\* channel, an event (channel B, guild G) in the same guild does not trigger the
\* entry sound, whichever channel B is.
C9_SameGuildMoveSilent ==
    \A p \in Procs :
        (/\ Decided(p)
         /\ previous[p].channel # "" /\ previous[p].guild = ev[p].guild
         /\ previous[p].channel # AfkChannelID[ev[p].guild])
        => pc[p] # "gate"

\* C9 witness: u1 moved between two ordinary channels of one guild and the
\* handler returns without playing.
C9_Witness ==
    \E p \in Procs :
        /\ Decided(p) /\ ev[p].user = "u1"
        /\ previous[p] = voiceChannelState("c2", "g2")
        /\ ev[p].channel = "c3" /\ ev[p].guild = "g2"
        /\ pc[p] = "ret" /\ outcome[p] = "notrigger"

\* The record a presence event carries.
EventRecord(e) == voiceChannelState(e.channel, e.guild)

\* C10 as stated: every incoming presence event leaves the record of its user
\* equal to (event.channel, event.guild).
C10_Original ==
    \A p \in Procs :
        ev[p].kind = "voice" =>
            userVoiceChannel[getUniqueUsername(ev[p].user)] = EventRecord(ev[p])

\* Handler p takes the step that handles an incoming presence event.
PresenceStep(p) == pc[p] = "idle" /\ ev'[p].kind = "voice"

\* C10 amended: every presence event of a user other than the bot whose user
\* and guild lookups succeed writes the presence map exactly once: the write
\* sets the record of the event's user to (event.channel, event.guild), whether
\* or not a trigger fires or an entry sound exists, and changes no other
\* record; an event of the bot itself or one whose lookup fails changes
\* nothing; no other step of any handler changes the map.
C10_OneWritePerEvent ==
    [][/\ \A p \in Procs :
            PresenceStep(p) =>
                userVoiceChannel' =
                    IF ev'[p].user # BotID /\ ev'[p].lookup = "ok"
                    THEN [userVoiceChannel EXCEPT
                            ![getUniqueUsername(ev'[p].user)] = EventRecord(ev'[p])]
                    ELSE userVoiceChannel
       /\ (\A p \in Procs : ~PresenceStep(p)) => userVoiceChannel' = userVoiceChannel]_vars

\* C10 witness: an event of u2, who has no entry sound, replaced u2's record.
C10_Witness ==
    \E p \in Procs :
        /\ Decided(p) /\ ev[p].user = "u2" /\ outcome[p] = "noentrysound"
        /\ previous[p] # EventRecord(ev[p])
        /\ userVoiceChannel[getUniqueUsername("u2")] = EventRecord(ev[p])

(* ==================== properties of the sound cache ==================== *)

\* p is in the cache check of playSound (isSoundCached, then convertAndCache)
\* and the cache check completed just before was for the same sound.
EnsuringAgain(p) ==
    /\ pc[p] \in {"check", "create", "copy"}
    /\ ensured.soundName = call[p].soundName

Encoding(p) == pc[p] = "copy"

\* C12: at most one convertAndCache is in progress at any time, and so never
\* two encodes that write the same sound's artifact at once.
C12_OneTranscoder ==
    \A p, q \in Procs : Encoding(p) /\ Encoding(q) => p = q

(* ====================== properties of pagination ======================= *)

RECURSIVE Concatenation(_)
\* The pages one after the other, in page order.
Concatenation(rendered) ==
    IF rendered = <<>> THEN <<>>
    ELSE Concatenation(SubSeq(rendered, 1, Len(rendered) - 1)) \o rendered[Len(rendered)]

Entries(page) == {page[i] : i \in 1 .. Len(page)}

Min(a, b) == IF a < b THEN a ELSE b

\* C13: every page p below totalPages holds min(pageSize, n - p * pageSize)
\* entries, two different pages share no entry, and the pages in page order
\* make up the sorted list: a prefix of it so far, all of it, each entry once,
\* when the last page is rendered.
C13_PagesPartition ==
    LET n == Len(strings) IN
    /\ Len(pages) <= totalPages(n, pageSize)
    /\ \A p \in 1 .. Len(pages) : Len(pages[p]) = Min(pageSize, n - (p - 1) * pageSize)
    /\ \A p, q \in 1 .. Len(pages) : p # q => Entries(pages[p]) \cap Entries(pages[q]) = {}
    /\ Concatenation(pages) = SubSeq(strings, 1, Len(Concatenation(pages)))
    /\ Len(pages) = totalPages(n, pageSize) => Concatenation(pages) = strings

\* All three pages of a list of 25 entries are rendered ten to a page; the
\* last page holds the five entries left.
C13_Witness ==
    /\ pageSize = stringsPerPage
    /\ Len(strings) = 25
    /\ Len(pages) = 3
    /\ Len(pages[3]) = 5

(* ==================== properties of help reactions ===================== *)

\* C14: once a reaction-add event of a non-bot user on a help message has been
\* handled, with every gateway call succeeding, the reactions on the message
\* are exactly the bot's own two pagination reactions.
C14_OnlyBotReactions ==
    \A p \in Procs :
        (/\ hev[p].kind = "reaction"
         /\ hpc[p] = "ret"
         /\ hout[p] \in {"outofbounds", "edited"})
        => reactions[hev[p].message] = initializeReactions(paginationReactions)

\* C15: a reaction on a help message with an emoji that is neither "previous"
\* nor "next" is ignored: the stored session is unchanged and no edit of the
\* displayed message is issued, the handler goes straight to its return.
C15_OtherEmojiIgnored ==
    [][\A p \in Procs :
          (ReactionStep(p) /\ hev'[p].emoji \notin paginationReactions)
          => /\ activeHelpPages' = activeHelpPages
             /\ hpc'[p] = "ret"]_vars

(* ====================== properties of "!aku" ========================== *)

\* p takes up an "!aku" message in this step.
AkuStep(p) == pc[p] = "idle" /\ ev'[p].kind = "aku"

\* The author of e has a presence record with a channel, in the guild the
\* message was posted in, and the argument names a sound of the catalog.
AkuValid(e) ==
    LET record == userVoiceChannel[getUniqueUsername(e.user)]
    IN  /\ record # Missing
        /\ record.channel # ""
        /\ record.guild = e.guild
        /\ e.arg \in DOMAIN audioAssets

\* C16: "!aku <name>" calls playSound only if the author has a presence record
\* with a non-empty channel, in the guild of the message, and the name is in
\* the catalog; the call then targets the recorded (channel, guild).  In any
\* other case the handler returns with no playback step and no state changed.
C16_AkuPlaysOnlyWhenValid ==
    [][\A p \in Procs :
          AkuStep(p) =>
              IF AkuValid(ev'[p])
              THEN /\ ev'[p].user # BotID => pc'[p] = "gate"
                   /\ pc'[p] = "gate" =>
                         /\ call'[p].soundName = ev'[p].arg
                         /\ call'[p].soundPath = audioAssets[ev'[p].arg]
                         /\ call'[p].target = userVoiceChannel[getUniqueUsername(ev'[p].user)]
              ELSE /\ pc'[p] = "ret"
                   /\ call'[p] = NoCall
                   /\ fx'[p] = NoFx
                   /\ UNCHANGED <<alive, audioBusy, userVoiceChannel, files>>]_vars

\* C16 witness: an "!aku" message posted in g2 by u2, who sits in a channel of
\* g2, has called playSound for that channel; and playSound got to the join.
C16_Witness ==
    \E p \in Procs :
        /\ ev[p].kind = "aku" /\ ev[p].user = "u2" /\ ev[p].guild = "g2"
        /\ pc[p] = "join"
        /\ call[p].target = userVoiceChannel[getUniqueUsername("u2")]
        /\ call[p].target.guild = "g2" /\ call[p].target.channel # ""

(* ================= properties of startup and shutdown ================== *)

\* C17: once startup has initialised the converted-sound cache, the cache
\* directory holds no artifact left over from an earlier run.
C17_NoLeftoverArtifact ==
    main \in {"open", "serving"} => \A path \in CachePaths : files[path] # "stale"

\* The cache directory and every artifact in it are gone.
CacheGone == cacheDir = "missing" /\ \A path \in CachePaths : files[path] = "absent"

\* C18 as stated: when a signal has ended the process, the cache directory and
\* all cached artifacts have been removed.
C18_Original == main \in {"exited", "killed"} => CacheGone

\* C18, amended: when a signal received at <-sc has ended the process,
\* os.RemoveAll has been called on the cache directory, and unless that call
\* failed the directory and all cached artifacts have been removed.
C18_RemovedBeforeExit ==
    main = "exited" => /\ removed # "notcalled"
                       /\ removed = "ok" => CacheGone

\* C18 witness: the process has ended on a signal with the cache removed,
\* while a handler that had encoded "airhorn" into the cache was at the join.
C18_Witness ==
    /\ main = "exited" /\ removed = "ok" /\ CacheGone
    /\ \E p \in Procs :
          /\ pc[p] = "join" /\ call[p].soundName = "airhorn"
          /\ fx[p].encodes = 1 /\ fx[p].encodeErrors = 0

(* ================ properties of playSound, continued =================== *)

\* C19: if convertAndCache fails (the artifact cannot be created, or the copy
\* of the transcoder's output into it fails) the playSound call is abandoned:
\* it attempts no voice join and starts no stream, and it does not encode again.
C19_FailedEncodeAbandons ==
    \A p \in Procs :
        fx[p].encodeErrors > 0 =>
            /\ fx[p].joins = 0
            /\ fx[p].streams = 0
            /\ fx[p].encodes = 1

\* C20: once the stream has started, playSound returns: the handler that waits
\* on the stream ends, with audioBusy cleared; and whenever the 10 second
\* timeout has ended the wait, the stream was started once only and the
\* handler is on its way out through the disconnect and the reset of audioBusy.
C20_StreamingReturns ==
    /\ \A p \in Procs :
          (pc[p] = "wait") ~> (pc[p] = "idle" /\ ~audioBusy)
    /\ [](\A p \in Procs :
            outcome[p] = "timeout" =>
                /\ pc[p] \in {"disconnect", "clear"}
                /\ fx[p].streams = 1
                /\ pc[p] = "clear" => fx[p].disconnects = 1)

\* C20 witness: the timeout ended the wait of a handler, which has
\* disconnected and is about to clear audioBusy.
C20_Witness ==
    \E p \in Procs :
        /\ pc[p] = "clear" /\ outcome[p] = "timeout"
        /\ fx[p].streams = 1 /\ fx[p].disconnects = 1
        /\ audioBusy

(* ================= properties of the maps under concurrency ============ *)

\* C21: accesses to the presence map are mutually exclusive: no two handlers
\* are in an access of the map at once with one of them writing.
C21_MapAccessExclusive == ~RacingOnPresence

\* The number of items a help session lists, and the page size it lists them
\* by: the categories for a root session, the sounds of an audio category, the
\* stickers of a pack.
ItemCount(name) ==
    CASE name = "audio" -> Cardinality(DOMAIN audioHelp)
      [] name = "sticker" -> Cardinality(DOMAIN stickerHelp)
      [] \E c \in DOMAIN audioHelp : name = "audio/" \o c ->
            audioHelp[CHOOSE c \in DOMAIN audioHelp : name = "audio/" \o c]
      [] OTHER -> stickerHelp[CHOOSE c \in DOMAIN stickerHelp : name = "sticker/" \o c]

SessionPageSize(name) ==
    IF \E c \in DOMAIN stickerHelp : name = "sticker/" \o c
    THEN 24
    ELSE 10

\* The least number of pages of the given size that hold count items.
Ceiling(count, size) == CHOOSE n \in 0 .. count : n * size >= count /\ (n = 0 \/ (n - 1) * size < count)

\* C22: a help session is created at page 0 with totalPages the ceiling of
\* its item count over its page size (10 for text listings, 24 for sticker
\* packs), and its name and totalPages never change afterwards.
C22_TotalPagesFixed ==
    [][\A m \in MessageIDs :
          LET old == activeHelpPages[m]
              new == activeHelpPages'[m]
          IN  /\ (old = NoHelpPage /\ new # NoHelpPage) =>
                    /\ new.page = 0
                    /\ new.totalPages = Ceiling(ItemCount(new.name), SessionPageSize(new.name))
              /\ old # NoHelpPage =>
                    /\ new.name = old.name
                    /\ new.totalPages = old.totalPages]_vars

\* A sticker pack session of several pages has had a page turned.
C22_Witness ==
    \E m \in MessageIDs :
        /\ activeHelpPages[m].name = "sticker/memes"
        /\ activeHelpPages[m].totalPages = 3
        /\ activeHelpPages[m].page = 2
        /\ shown[m] = 2

\* What was typed after the first space of the message.
Typed == IF Len(SplitN2(message)) = 1 THEN <<>> ELSE SplitN2(message)[2]

\* s with every space turned into an underscore.
Underscored(s) == [i \in 1 .. Len(s) |-> IF s[i] = " " THEN "_" ELSE s[i]]

\* C23: the argument of a chat command, as used for the catalog lookup, is
\* what was typed with surrounding white space trimmed and every space
\* replaced by an underscore.
C23_ArgumentNormalized ==
    parsed # NotParsed => parsed.argument = Underscored(TrimSpace(Typed))

\* C24: a playSound invocation that attempted a voice join attempts one
\* disconnect on every exit path (join failure, timeout, stream error,
\* success), after its wait for the stream is over and while audioBusy is
\* still set; whether or not the disconnect fails, the invocation goes on to
\* clear the flag, and it returns having disconnected as often as it joined.
C24_DisconnectOnEveryExit ==
    [][\A p \in Procs :
          /\ (pc[p] = "join" /\ pc'[p] # "join") => pc'[p] \in {"stream", "disconnect"}
          /\ (pc[p] = "wait" /\ pc'[p] # "wait") => pc'[p] = "disconnect"
          /\ (pc[p] = "disconnect" /\ pc'[p] # "disconnect") =>
                /\ outcome[p] \in {"joinfailed", "timeout", "streamerror", "played", "panic"}
                /\ fx[p].joins = 1 /\ fx[p].disconnects = 0 /\ fx'[p].disconnects = 1
                /\ audioBusy /\ audioBusy'
                /\ pc'[p] = "clear"
          /\ (pc[p] \in PastGate /\ pc'[p] = "idle") =>
                /\ fx[p].disconnects = fx[p].joins
                /\ ~audioBusy']_vars

\* A disconnect made after a timeout has failed, and the flag is cleared.
C24_Witness ==
    /\ disconnected = [outcome |-> "timeout", err |-> TRUE]
    /\ pc[1] = "idle"
    /\ ~audioBusy

\* C25: onVoiceStateUpdate calls playSound only for a user with an entry sound
\* registered under their unique username, and then with that asset's path,
\* the username as the sound's name, and the event's new channel and guild as
\* target; an event of a user without an entry sound calls nothing.
C25_EntrySoundOfTheUser ==
    [][\A p \in Procs :
          (pc[p] = "idle" /\ ev'[p].kind = "voice") =>
              LET username == getUniqueUsername(ev'[p].user)
              IN  /\ username \notin DOMAIN audioAssets => pc'[p] = "ret" /\ call'[p] = NoCall
                  /\ pc'[p] = "gate" =>
                        /\ username \in DOMAIN audioAssets
                        /\ call'[p].soundName = username
                        /\ call'[p].soundPath = audioAssets[username]
                        /\ call'[p].target = [channel |-> ev'[p].channel, guild |-> ev'[p].guild]
                  /\ pc'[p] \in {"ret", "gate"}]_vars

\* The entry sound of a user who has changed guild is about to be played in
\* the new channel.
C25_Witness ==
    /\ pc[1] = "gate"
    /\ ev[1].kind = "voice"
    /\ previous[1].channel # ""
    /\ previous[1].guild # ev[1].guild
    /\ call[1].target = [channel |-> ev[1].channel, guild |-> ev[1].guild]

\* The users listed in the voice states of a guild gone through.
ListedConnected == {u \in Members : platform.connected[u].guild \in processed /\ platform.connected[u].channel # ""}

\* The members fetched for the guilds gone through.
FetchedMembers == UNION {platform.members[g] : g \in processed}

\* C26 as stated: once every guild has been gone through, every user listed in
\* the voice states of a processed guild has the record of their channel and
\* that guild.
C26_Original ==
    guildsLeft = <<>> /\ platform # NoPlatform =>
        \A u \in ListedConnected : userVoiceChannel[getUniqueUsername(u)] = platform.connected[u]

\* Every guild gone through: the connected users that session.User found have
\* the record of their channel and guild, and every other fetched member has a
\* record with an empty channel.
BulkDone ==
    guildsLeft = <<>> /\ platform # NoPlatform =>
        /\ \A u \in ListedConnected :
              platform.found[u] => userVoiceChannel[getUniqueUsername(u)] = platform.connected[u]
        /\ \A u \in FetchedMembers \ {v \in ListedConnected : platform.found[v]} :
              /\ userVoiceChannel[getUniqueUsername(u)] # Missing
              /\ userVoiceChannel[getUniqueUsername(u)].channel = ""

\* C26, amended: after bulk initialization over the guilds in any order, every
\* user listed in a processed guild's voice states whose user lookup succeeded
\* has the record (their channel, that guild), every other fetched member has
\* a record with an empty channel, and no step replaces a connected record by
\* a record with an empty channel.
C26_BulkInitialization ==
    [][/\ BulkDone'
       /\ \A n \in Usernames :
             (userVoiceChannel[n] # Missing /\ userVoiceChannel[n].channel # "") =>
                 userVoiceChannel'[n] = userVoiceChannel[n]]_vars

\* u1, a member of both guilds and connected in the first one gone through,
\* keeps the connected record when the second guild's defaults are set.
C26_Witness ==
    /\ guildsLeft = <<>>
    /\ processed = Guilds
    /\ platform # NoPlatform
    /\ platform.members = [g \in Guilds |-> Members]
    /\ platform.connected["u1"].channel # ""
    /\ platform.found["u1"]
    /\ userVoiceChannel["alice#0001"] = platform.connected["u1"]
    /\ userVoiceChannel["bob#0002"].channel = ""

\* A help command is taken up by handler p.
HelpCommandStep(p) == hpc[p] = "idle" /\ hev'[p].kind \in {"akuh", "akush"}

\* The categories of the catalog a help command of this kind can name.
Catalog(kind) == IF kind = "akuh" THEN DOMAIN audioHelp ELSE DOMAIN stickerHelp

\* C27: a help command naming a category that is not in the catalog sends no
\* message, adds no reaction and creates no help session; and a help session
\* is registered only under the ID of a message sent successfully in the same
\* handling.
C27_UnknownCategoryIgnored ==
    [][/\ \A p \in Procs :
             (HelpCommandStep(p) /\ hev'[p].arg # "" /\ hev'[p].arg \notin Catalog(hev'[p].kind)) =>
                 UNCHANGED <<sent, shown, reactions, activeHelpPages>>
       /\ \A m \in MessageIDs :
             (activeHelpPages[m] = NoHelpPage /\ activeHelpPages'[m] # NoHelpPage) =>
                 /\ sent' = sent + 1
                 /\ m = sent'
                 /\ \E p \in Procs : HelpCommandStep(p) /\ hev'[p].ok /\ hout'[p] = "sent"]_vars

\* With one session open, a help command for an unknown category has been
\* handled and has left everything as it was.
C27_Witness ==
    /\ hout[1] = "nosuchcategory"
    /\ hev[1].arg \in {"nosuchcategory", "nosuchpack"}
    /\ sent = 1
    /\ activeHelpPages[1] # NoHelpPage
    /\ activeHelpPages[2] = NoHelpPage
    /\ reactions[2] = {}

\* C28: handling a command leaves the catalog's list of a category as it was,
\* contents and order.
C28_CatalogUnchanged == [][sounds' = sounds]_vars

\* C29: whenever a playSound call has opened the artifact of its sound for
\* streaming, the artifact is a completely written encode: not one cut short
\* by a failed write, and not one an encode is still writing.
C29_OpenedArtifactComplete ==
    \A p \in Procs :
        pc[p] \in {"join", "stream", "wait"} =>
            /\ files[getConvertedSoundCachePath(call[p].soundName)] = "complete"
            /\ \A q \in Procs \ {p} :
                  pc[q] = "copy" => call[q].soundName # call[p].soundName

\* C30: for every help session, once no reaction on it is being handled, the
\* stored page is the page the chat message displays.
C30_StoredPageDisplayed ==
    \A m \in MessageIDs :
        (activeHelpPages[m] # NoHelpPage /\ \A p \in Procs : hpc[p] \in {"idle", "ret"}) =>
            activeHelpPages[m].page = shown[m]

\* C31: bulk initialization of the presence map is over before a presence
\* handler reads or writes the map, and bulk initialization never replaces
\* the record a presence event has written since the voice states it stores
\* were read.
C31_BulkBeforePresence ==
    [][/\ \A p \in Procs : PresenceStep(p) => guildsLeft = <<>>
       /\ (\A p \in Procs : ~PresenceStep(p)) =>
             \A n \in recent : userVoiceChannel'[n] = userVoiceChannel[n]]_vars

\* C32: an event the bot caused itself is ignored.  Its voice-state events
\* and messages change no presence record, call no playSound and touch neither
\* the busy flag nor the cache; its reactions turn no page, strip no reaction
\* and edit no message; and no handler of such an event goes beyond returning.
C32_OwnEventsIgnored ==
    [][\A p \in Procs :
          /\ (pc[p] = "idle" /\ ev'[p].user = BotID) =>
                /\ pc'[p] = "ret"
                /\ call'[p] = NoCall
                /\ UNCHANGED <<userVoiceChannel, audioBusy, files, fx>>
          /\ (pc[p] # "idle" /\ ev[p].user = BotID) => pc'[p] \in {"ret", "idle"}
          /\ (hpc[p] = "idle" /\ hev'[p].user = BotID) =>
                /\ hpc'[p] = "ret"
                /\ UNCHANGED <<activeHelpPages, shown, sent, reactions>>
          /\ (hpc[p] # "idle" /\ hev[p].user = BotID) => hpc'[p] \in {"ret", "idle"}]_vars

\* While u1's entry sound is being streamed in c1, the event of the bot's own
\* join of c1 has been handled, and the bot has no presence record of its own
\* channel.
C32_Witness ==
    /\ pc[1] = "wait"
    /\ call[1].target = voiceChannelState("c1", "g1")
    /\ pc[2] = "ret"
    /\ ev[2].kind = "voice" /\ ev[2].user = BotID /\ ev[2].channel = "c1"
    /\ outcome[2] = "self"
    /\ userVoiceChannel[getUniqueUsername(BotID)] = voiceChannelState("", "g1")

====
